---- MODULE Spec2Model ----
(***************************************************************************)
(* A model of layout21: the track model (Track::segment_at, Track::cut,    *)
(* Track::stop), the Layer track derivation and the RawConverter that      *)
(* walks a Library and emits raw cells.                                    *)
(*                                                                         *)
(* Rust's Option<T> is modelled as a sequence: <<>> is None and <<v>> is   *)
(* Some(v).  Vec indices are 0-based in the source and 1-based here; every *)
(* place where an index crosses the border says so.                        *)
(***************************************************************************)
EXTENDS Integers, Sequences, FiniteSets, TLC

VARIABLES
    segments,     \* Track.segments of the track under test (lib.rs:392)
    call,         \* the last Track method call: its arguments, the list before it, its result
    ncalls,       \* number of Track method calls made so far
    self_lib,     \* RawConverter.lib, the Library being converted (lib.rs:979)
    pc,           \* where RawConverter::convert_all stands
    pass,         \* the layer, cell or abstract convert_all is at (1-based)
    cur_layernum, \* the layer loop of convert_cell (lib.rs:1062), 0-based as in the source
    cur_rown,     \* the row loop of convert_cell (lib.rs:1080)
    cell_elems,   \* the elems of the cell being converted (lib.rs:1021)
    out,          \* the cells of the raw::Library being built (lib.rs:989)
    result,       \* "running", or how convert ended: "Ok", "Err" or "panic"
    row           \* what the last pass of the row loop registered

trackvars == <<segments, call, ncalls>>
convvars == <<self_lib, pc, pass, cur_layernum, cur_rown, cell_elems, out, result, row>>
vars == <<trackvars, convvars>>

(***************************************************************************)
(* Bounds of the model.                                                    *)
(***************************************************************************)
MaxCoord == 5   \* coordinates along a track are 0..MaxCoord
MaxSegs == 3    \* longest segment list drawn as an input
MaxCuts == 3    \* longest sequence of Track::cut calls on one track

Coords == 0..MaxCoord

None == <<>>
Some(v) == <<v>>

(***************************************************************************)
(* TrackSegment (lib.rs:498-506).                                          *)
(***************************************************************************)
TrackSegment(net, start, stop) == [net |-> net, start |-> start, stop |-> stop]

LayoutResultOk == "Ok"
LayoutResultErr == "Err"

(***************************************************************************)
(* Track::segment_at (lib.rs:397-410).  Returns the 1-based index of the   *)
(* segment the source returns a reference to, as an Option.                *)
(***************************************************************************)
\* A segment that excludes its own stop coordinate.
SegmentContains_StopExclusive(seg, dist) == seg.start <= dist /\ seg.stop > dist

\* lib.rs:405, the test that a segment holds dist.
SegmentContains(seg, dist) == seg.start <= dist /\ seg.stop >= dist

RECURSIVE segment_at_loop(_, _, _)
segment_at_loop(segs, i, dist) ==
    IF i > Len(segs) THEN None
    ELSE IF segs[i].start > dist THEN None
    ELSE IF SegmentContains(segs[i], dist) THEN Some(i)
    ELSE segment_at_loop(segs, i + 1, dist)

\* A lookup that falls back on the first segment when none contains dist.
Track_segment_at_FirstIfNone(segs, dist) ==
    IF Len(segs) < 1 THEN None
    ELSE IF segment_at_loop(segs, 1, dist) = None THEN Some(1)
    ELSE segment_at_loop(segs, 1, dist)

Track_segment_at(segs, dist) ==
    IF Len(segs) < 1 THEN None ELSE segment_at_loop(segs, 1, dist)

(***************************************************************************)
(* Track::cut (lib.rs:412-454).                                            *)
(***************************************************************************)
\* An entry check that lets the empty range stop = start through.
CutEntryError_AllowsEmptyRange(segs, start, stop) == Len(segs) = 0 \/ stop < start

\* lib.rs:413, the entry check.
CutEntryError(segs, start, stop) == Len(segs) = 0 \/ stop <= start

\* A stop-side trim that writes the cut's stop instead of its start.
StopSideTrim_WritesStop(seg, start, stop) == [seg EXCEPT !.stop = stop]

\* lib.rs:429-431, the stop-side trim.
StopSideTrim(seg, start, stop) == [seg EXCEPT !.stop = start]

\* lib.rs:432-434, the start-side trim.
StartSideTrim(seg, start, stop) == [seg EXCEPT !.start = stop]

\* The internal cut: <<the new leading segment, the shrunk original>>.
InternalCut(seg, start, stop) ==
    <<[seg EXCEPT !.stop = start], [seg EXCEPT !.start = stop]>>

\* Vec::insert(idx, seg), idx 1-based here.
VecInsert(v, idx, e) == SubSeq(v, 1, idx - 1) \o <<e>> \o SubSeq(v, idx, Len(v))

\* Vec::remove(idx), idx 1-based here.
VecRemove(v, idx) == SubSeq(v, 1, idx - 1) \o SubSeq(v, idx + 1, Len(v))

\* The loop of lib.rs:419-444 from segment idx on.  st carries the segment
\* list as mutated so far, to_be_removed, to_be_inserted and the early return.
RECURSIVE cut_loop(_, _, _, _)
cut_loop(st, idx, start, stop) ==
    IF idx > Len(st.segs) THEN st
    ELSE LET seg == st.segs[idx] IN
         IF seg.start > stop THEN st
         ELSE IF stop < seg.start THEN cut_loop(st, idx + 1, start, stop)
         ELSE IF start <= seg.start /\ stop >= seg.stop
              THEN cut_loop([st EXCEPT !.to_be_removed = Append(@, idx)],
                            idx + 1, start, stop)
         ELSE IF start > seg.start /\ stop >= seg.stop
              THEN cut_loop([st EXCEPT !.segs[idx] = StopSideTrim(seg, start, stop)],
                            idx + 1, start, stop)
         ELSE IF start <= seg.start /\ stop < seg.stop
              THEN cut_loop([st EXCEPT !.segs[idx] = StartSideTrim(seg, start, stop)],
                            idx + 1, start, stop)
         ELSE IF start > seg.start /\ stop < seg.stop
              THEN cut_loop([st EXCEPT !.segs[idx] = InternalCut(seg, start, stop)[2],
                                       !.to_be_inserted =
                                           Some(<<idx, InternalCut(seg, start, stop)[1]>>)],
                            idx + 1, start, stop)
         ELSE [st EXCEPT !.err = TRUE]

\* Removal of the fully-cut segments, in reverse order (lib.rs:449-451).
RECURSIVE remove_rev(_, _)
remove_rev(segs, idxs) ==
    IF idxs = <<>> THEN segs
    ELSE remove_rev(VecRemove(segs, idxs[Len(idxs)]), SubSeq(idxs, 1, Len(idxs) - 1))

\* lib.rs:445-452: the insertion, or else the removals.
CutFinish(st) ==
    IF st.to_be_inserted # None
    THEN VecInsert(st.segs, st.to_be_inserted[1][1], st.to_be_inserted[1][2])
    ELSE remove_rev(st.segs, st.to_be_removed)

\* The whole method: the result and the segment list it leaves behind.
Track_cut(segs, start, stop) ==
    IF CutEntryError(segs, start, stop)
    THEN [res |-> LayoutResultErr, segs |-> segs]
    ELSE LET st == cut_loop([segs |-> segs, to_be_removed |-> <<>>,
                             to_be_inserted |-> None, err |-> FALSE],
                            1, start, stop)
         IN  IF st.err
             THEN [res |-> LayoutResultErr, segs |-> st.segs]
             ELSE [res |-> LayoutResultOk, segs |-> CutFinish(st)]

(***************************************************************************)
(* Track::stop (lib.rs:455-463).                                           *)
(***************************************************************************)
\* A stop that ends the first segment of the track.
Track_stop_FirstSegment(segs, stop) ==
    IF Len(segs) = 0
    THEN [res |-> LayoutResultErr, segs |-> segs]
    ELSE [res |-> LayoutResultOk, segs |-> [segs EXCEPT ![1].stop = stop]]

Track_stop(segs, stop) ==
    IF Len(segs) = 0
    THEN [res |-> LayoutResultErr, segs |-> segs]
    ELSE [res |-> LayoutResultOk, segs |-> [segs EXCEPT ![Len(segs)].stop = stop]]

(***************************************************************************)
(* Dir (lib.rs:36-50), TrackEntry, TrackSpec and Pattern (lib.rs:51-120).  *)
(***************************************************************************)
Horiz == "Horiz"
Vert == "Vert"

\* Dir::other (lib.rs:44-49).
other(dir) == IF dir = Horiz THEN Vert ELSE Horiz

Gap == "Gap"
Signal == "Signal"
Rail == "Rail"

TrackEntry(width, ttype) == [width |-> width, ttype |-> ttype]

\* TrackSpec::gap, ::sig, ::rail and ::pat (lib.rs:85-105).
SpecEntry(e) == [tag |-> "Entry", e |-> e]
SpecGap(width) == SpecEntry(TrackEntry(width, Gap))
SpecSig(width) == SpecEntry(TrackEntry(width, Signal))
SpecRail(width) == SpecEntry(TrackEntry(width, Rail))
SpecPat(entries, nrep) == [tag |-> "Pat", p |-> [entries |-> entries, nrep |-> nrep]]

(***************************************************************************)
(* Layer (lib.rs:145-295).                                                 *)
(***************************************************************************)
\* A Pattern taken once, whatever its nrep.
replay_Once(entries, nrep) == entries

\* for _i in 0..p.nrep { for ee in p.entries ... } (lib.rs:281-285).
RECURSIVE replay(_, _)
replay(entries, nrep) ==
    IF nrep = 0 THEN <<>> ELSE entries \o replay(entries, nrep - 1)

RECURSIVE flat_from(_, _)
flat_from(entries, i) ==
    IF i > Len(entries) THEN <<>>
    ELSE (IF entries[i].tag = "Entry" THEN <<entries[i].e>>
          ELSE replay(entries[i].p.entries, entries[i].p.nrep))
         \o flat_from(entries, i + 1)

\* Layer::flat_entries (lib.rs:275-290).
flat_entries(layer) == flat_from(layer.entries, 1)

RECURSIVE sum_widths(_, _)
sum_widths(es, i) == IF i > Len(es) THEN 0 ELSE es[i].width + sum_widths(es, i + 1)

\* The widths of the entries as written, every Pattern taken once.
pitch_AsWritten(layer) ==
    sum_widths(flat_from([k \in 1..Len(layer.entries) |->
                             IF layer.entries[k].tag = "Entry" THEN layer.entries[k]
                             ELSE [layer.entries[k] EXCEPT !.p.nrep = 1]], 1), 1)

\* Layer::pitch (lib.rs:292-294).
pitch(layer) == sum_widths(flat_entries(layer), 1)

\* Layer::num_signal_tracks (lib.rs:239-248).
num_signal_tracks(layer) ==
    Cardinality({i \in 1..Len(flat_entries(layer)) : flat_entries(layer)[i].ttype = Signal})

\* A Track (lib.rs:378-393).  layer is the index of the Layer it refers to.
Track(layer, ttype, index, start, width, segs) ==
    [layer |-> layer.index, ttype |-> ttype, index |-> index, dir |-> layer.dir,
     start |-> start, width |-> width, segments |-> segs]

\* The loop of Layer::to_track_period (lib.rs:171-207) from entry i on.
RECURSIVE period_loop(_, _, _, _, _, _)
period_loop(layer, es, i, cursor, period, stop) ==
    IF i > Len(es) THEN period
    ELSE LET e == es[i]
             next == IF e.ttype = Rail
                     THEN [period EXCEPT !.rails = Append(@,
                              Track(layer, e.ttype, Len(period.rails), cursor, e.width,
                                    <<TrackSegment(Some("POWER_OR_GROUND_HERE_BRO"), 0, stop)>>))]
                     ELSE IF e.ttype = Signal
                     THEN [period EXCEPT !.signals = Append(@,
                              Track(layer, e.ttype, Len(period.signals), cursor, e.width,
                                    <<TrackSegment(None, 0, stop)>>))]
                     ELSE period
         IN  period_loop(layer, es, i + 1, cursor + e.width, next, stop)

\* A track period laid out from coordinate 0, whatever the Layer's offset.
to_track_period_NoOffset(layer, stop) ==
    period_loop(layer, flat_entries(layer), 1, 0,
                [rails |-> <<>>, signals |-> <<>>], stop)

\* Layer::to_track_period (lib.rs:165-209).
to_track_period(layer, stop) ==
    period_loop(layer, flat_entries(layer), 1, layer.offset,
                [rails |-> <<>>, signals |-> <<>>], stop)

\* The loop of Layer::tracks (lib.rs:215-235) from entry i on.
RECURSIVE tracks_loop(_, _, _, _, _, _)
tracks_loop(layer, es, i, cursor, index, tracks) ==
    IF i > Len(es) THEN tracks
    ELSE IF es[i].ttype = Gap
         THEN tracks_loop(layer, es, i + 1, cursor + es[i].width, index, tracks)
         ELSE tracks_loop(layer, es, i + 1, cursor + es[i].width, index + 1,
                  Append(tracks, Track(layer, es[i].ttype, index, cursor, es[i].width, <<>>)))

\* Layer::tracks (lib.rs:211-237).
tracks(layer) == tracks_loop(layer, flat_entries(layer), 1, layer.offset, 0, <<>>)

\* A value, or the abort of the process (panic!, an index out of bounds, a
\* division by zero, an unwrap of None or Err).
Value(v) == [kind |-> "value", v |-> v]
Panic == [kind |-> "panic"]

\* A Result: Ok(v), or an Err(LayoutError).
Ok(v) == [kind |-> "ok", v |-> v]
Err == [kind |-> "err"]

\* The loop of Layer::signal_track_center (lib.rs:256-271) from entry i on.
RECURSIVE center_loop(_, _, _, _, _)
center_loop(es, i, cursor, index, idx_mod_tracks) ==
    IF i > Len(es) THEN Panic
    ELSE IF es[i].ttype # Signal
         THEN center_loop(es, i + 1, cursor + es[i].width, index, idx_mod_tracks)
    ELSE IF index > idx_mod_tracks THEN Panic
    ELSE IF index = idx_mod_tracks THEN Value(cursor + (es[i].width \div 2))
    ELSE center_loop(es, i + 1, cursor + es[i].width, index + 1, idx_mod_tracks)

\* A lookup of track idx itself, not of idx modulo the tracks of a period.
signal_track_center_NoWrap(layer, idx) ==
    IF num_signal_tracks(layer) = 0 THEN Panic
    ELSE center_loop(flat_entries(layer), 1,
                     layer.offset + ((pitch(layer) * idx) \div num_signal_tracks(layer)),
                     0, idx)

\* Layer::signal_track_center (lib.rs:251-272).  idx % 0 aborts.
signal_track_center(layer, idx) ==
    IF num_signal_tracks(layer) = 0 THEN Panic
    ELSE center_loop(flat_entries(layer), 1,
                     layer.offset + ((pitch(layer) * idx) \div num_signal_tracks(layer)),
                     0, idx % num_signal_tracks(layer))

(***************************************************************************)
(* Outline (lib.rs:556-621) and Point (lib.rs:623-661).                    *)
(***************************************************************************)
Point(x, y) == [x |-> x, y |-> y]

\* Point::offset (lib.rs:634-639).
offset(val, dir) == IF dir = Horiz THEN Point(val, 0) ELSE Point(0, val)

\* Point::scale (lib.rs:648-653).
scale(p, x, y) == Point(x * p.x, y * p.y)

\* Point::coord (lib.rs:655-660).
coord(p, dir) == IF dir = Horiz THEN p.x ELSE p.y

Outline(x, y) == [x |-> x, y |-> y]

\* A constructor that also refuses two equal consecutive x values.
Outline_new_StrictX(x, y) ==
    IF Len(x) # Len(y) THEN Err
    ELSE IF Len(x) < 1 THEN Err
    ELSE IF \E k \in 2..Len(x) : x[k] >= x[k - 1] THEN Err
    ELSE IF \E k \in 2..Len(y) : y[k] < y[k - 1] THEN Err
    ELSE Ok(Outline(x, y))

\* Outline::new (lib.rs:563-584); k is 1-based here.
Outline_new(x, y) ==
    IF Len(x) # Len(y) THEN Err
    ELSE IF Len(x) < 1 THEN Err
    ELSE IF \E k \in 2..Len(x) : x[k] > x[k - 1] THEN Err
    ELSE IF \E k \in 2..Len(y) : y[k] < y[k - 1] THEN Err
    ELSE Ok(Outline(x, y))

\* Outline::xmax, ::ymax and ::max (lib.rs:591-605).
xmax(outline) == outline.x[1]
ymax(outline) == outline.y[Len(outline.y)]
max(outline, dir) == IF dir = Horiz THEN xmax(outline) ELSE ymax(outline)

\* The loop of Outline::points (lib.rs:611-616) from pair i on; yp is the
\* y of the previous pair.
RECURSIVE points_loop(_, _, _)
points_loop(outline, i, yp) ==
    IF i > Len(outline.x) THEN <<Point(0, yp)>>
    ELSE <<Point(outline.x[i], yp), Point(outline.x[i], outline.y[i])>>
         \o points_loop(outline, i + 1, outline.y[i])

\* Outline::points without its first vertex, the origin of lib.rs:608.
points_NoOrigin(outline) == points_loop(outline, 1, 0)

\* Outline::points (lib.rs:607-620).
points(outline) == <<Point(0, 0)>> \o points_loop(outline, 1, 0)

(***************************************************************************)
(* The data model: raw::DataTypeMap (lib.rs:738-747), Layer (146-162),     *)
(* Stack (125-138), CellRef (1450-1454), Instance (327-340), Assign        *)
(* (313-318), TrackIntersection (509-518), Cell (524-537),                 *)
(* abstrakt::Abstract (1321-1330) and Library (346-359).  The SlotMaps of  *)
(* a Library are sequences; a key is a position, present when it is in    *)
(* 1..Len.                                                                 *)
(***************************************************************************)
DataTypeMap(layernum, drawing, text) ==
    [layernum |-> layernum, drawing |-> drawing, text |-> text]

Layer(index, name, dir, entries, off, raw) ==
    [index |-> index, name |-> name, dir |-> dir, entries |-> entries,
     offset |-> off, raw |-> raw]

Stack(xpitch, ypitch, boundary_layer, layers) ==
    [xpitch |-> xpitch, ypitch |-> ypitch, boundary_layer |-> boundary_layer,
     layers |-> layers]

CellRefCell(key) == [tag |-> "Cell", key |-> key]
CellRefAbstract(key) == [tag |-> "Abstract", key |-> key]
CellRefName(name) == [tag |-> "Name", name |-> name]

Instance(inst_name, cell_name, cell, p0) ==
    [inst_name |-> inst_name, cell_name |-> cell_name, cell |-> cell, p0 |-> p0,
     reflect |-> FALSE, angle |-> None]

Above == "Above"
Below == "Below"

TrackIntersection(layer, track, at, relz) ==
    [layer |-> layer, track |-> track, at |-> at, relz |-> relz]

Assign(net, at) == [net |-> net, at |-> at]

Cell(name, top_layer, outline, instances, assignments) ==
    [name |-> name, top_layer |-> top_layer, outline |-> outline,
     instances |-> instances, assignments |-> assignments]

Abstract(name, outline, top_layer) ==
    [name |-> name, outline |-> outline, top_layer |-> top_layer]

Library(name, stack, abstracts, cells) ==
    [name |-> name, stack |-> stack, abstracts |-> abstracts, cells |-> cells]

(***************************************************************************)
(* The raw model: raw::Element, raw::Shape and raw::Cell (lib.rs:700-814). *)
(***************************************************************************)
Rect(p0, p1) == [tag |-> "Rect", p0 |-> p0, p1 |-> p1]
Poly(pts) == [tag |-> "Poly", pts |-> pts]

Element(net, layer, inner) == [net |-> net, layer |-> layer, inner |-> inner]

RawCell(name, insts, elems) ==
    [name |-> name, insts |-> insts, arrays |-> <<>>, elems |-> elems]

\* Point::shift (lib.rs:641-646) applied as raw::Shape::shift does (lib.rs:795-813).
shift_point(p, pt) == Point(p.x + pt.x, p.y + pt.y)

\* raw::Shape::shift (lib.rs:795-813).
shift(shape, pt) ==
    IF shape.tag = "Rect"
    THEN Rect(shift_point(shape.p0, pt), shift_point(shape.p1, pt))
    ELSE Poly([k \in 1..Len(shape.pts) |-> shift_point(shape.pts[k], pt)])

(***************************************************************************)
(* raw::Shape::center and ::orientation (lib.rs:771-793) and               *)
(* raw::GdsConverter::convert_element (lib.rs:886-950).                    *)
(***************************************************************************)
\* isize division, which truncates toward zero.
isize_div(a, b) == IF a >= 0 THEN a \div b ELSE -((-a) \div b)

isize_abs(a) == IF a < 0 THEN -a ELSE a

\* i32::MAX, the largest value of the i32 coordinates of GDS (lib.rs:893).
I32Max == 2147483647

\* `as i32` of an isize (lib.rs:893-896): the low 32 bits as a signed number,
\* for values within one wrap of the i32 range.
as_i32(a) ==
    IF a > I32Max THEN ((a - I32Max) - 1) - I32Max - 1
    ELSE IF a < (-I32Max) - 1 THEN ((a + I32Max) + 1) + I32Max + 1
    ELSE a

\* raw::Shape::center (lib.rs:772-779); unimplemented!() for a Poly.
Shape_center(shape) ==
    IF shape.tag = "Rect"
    THEN Value(Point(isize_div(shape.p0.x + shape.p1.x, 2),
                     isize_div(shape.p0.y + shape.p1.y, 2)))
    ELSE Panic

\* An orientation that also takes a square for vertical.
Shape_orientation_SquareVert(shape) ==
    IF shape.tag = "Rect"
    THEN (IF isize_abs(shape.p1.x - shape.p0.x) <= isize_abs(shape.p1.y - shape.p0.y)
          THEN Value(Vert) ELSE Value(Horiz))
    ELSE Panic

\* raw::Shape::orientation (lib.rs:781-793); unimplemented!() for a Poly.
Shape_orientation(shape) ==
    IF shape.tag = "Rect"
    THEN (IF isize_abs(shape.p1.x - shape.p0.x) < isize_abs(shape.p1.y - shape.p0.y)
          THEN Value(Vert) ELSE Value(Horiz))
    ELSE Panic

\* The flattened, closed coordinate vector of a shape (lib.rs:891-911).
RECURSIVE flatten_points(_, _)
flatten_points(pts, i) ==
    IF i > Len(pts) THEN <<>>
    ELSE <<as_i32(pts[i].x), as_i32(pts[i].y)>> \o flatten_points(pts, i + 1)

\* The coordinate vector without the repetition of its first point.
gds_xy_Open(shape) ==
    IF shape.tag = "Rect"
    THEN LET x0 == as_i32(shape.p0.x)
             y0 == as_i32(shape.p0.y)
             x1 == as_i32(shape.p1.x)
             y1 == as_i32(shape.p1.y)
         IN  <<x0, y0, x1, y0, x1, y1, x0, y1>>
    ELSE flatten_points(shape.pts, 1)

\* let xy = match &elem.inner { ... } (lib.rs:891-911), for a Rect and for a
\* Poly of at least one point.
gds_xy(shape) ==
    IF shape.tag = "Rect"
    THEN LET x0 == as_i32(shape.p0.x)
             y0 == as_i32(shape.p0.y)
             x1 == as_i32(shape.p1.x)
             y1 == as_i32(shape.p1.y)
         IN  <<x0, y0, x1, y0, x1, y1, x0, y1, x0, y0>>
    ELSE flatten_points(shape.pts, 1) \o <<as_i32(shape.pts[1].x), as_i32(shape.pts[1].y)>>

GdsBoundary(layer, datatype, xy) ==
    [tag |-> "GdsBoundary", layer |-> layer, datatype |-> datatype, xy |-> xy]

\* gds21::GdsStrans with angle 90 and the defaults otherwise (lib.rs:932-935).
GdsStrans90 == [reflected |-> FALSE, abs_mag |-> FALSE, abs_angle |-> FALSE,
                mag |-> None, angle |-> Some(90)]

GdsTextElem(string, layer, texttype, xy, strans) ==
    [tag |-> "GdsTextElem", string |-> string, layer |-> layer,
     texttype |-> texttype, xy |-> xy, strans |-> strans]

\* The text element of lib.rs:921-948 for an element with net `name`.
gds_text(elem, name) ==
    IF elem.layer.text = None THEN Err
    ELSE IF Shape_center(elem.inner).kind = "panic" THEN Panic
    ELSE IF Shape_orientation(elem.inner).kind = "panic" THEN Panic
    ELSE Ok(GdsTextElem(name, elem.layer.layernum, elem.layer.text[1],
                        <<as_i32(Shape_center(elem.inner).v.x),
                          as_i32(Shape_center(elem.inner).v.y)>>,
                        IF Shape_orientation(elem.inner).v = Horiz THEN None
                        ELSE Some(GdsStrans90)))

\* raw::GdsConverter::convert_element (lib.rs:886-950).
convert_element(elem) ==
    IF elem.layer.drawing = None THEN Err
    ELSE IF elem.inner.tag = "Poly" /\ Len(elem.inner.pts) = 0
    THEN Panic    \* pts[0] of an empty Vec (lib.rs:907)
    ELSE LET boundary == GdsBoundary(elem.layer.layernum, elem.layer.drawing[1],
                                     gds_xy(elem.inner))
         IN  IF elem.net = None THEN Ok(<<boundary>>)
             ELSE IF gds_text(elem, elem.net[1]).kind = "ok"
                  THEN Ok(<<boundary, gds_text(elem, elem.net[1]).v>>)
                  ELSE gds_text(elem, elem.net[1])

(***************************************************************************)
(* RawConverter (lib.rs:978-1301).                                         *)
(***************************************************************************)
\* The rectangle of one segment (lib.rs:1240-1269).
segment_rect(track, seg) ==
    IF track.dir = Horiz
    THEN Rect(Point(seg.start, track.start), Point(seg.stop, track.start + track.width))
    ELSE Rect(Point(track.start, seg.start), Point(track.start + track.width, seg.stop))

\* RawConverter::convert_track (lib.rs:1229-1273); layer is track.layer.
convert_track(layer, track) ==
    IF layer.raw = None THEN Err
    ELSE Ok([k \in 1..Len(track.segments) |->
                Element(track.segments[k].net, layer.raw[1],
                        segment_rect(track, track.segments[k]))])

\* A unit that is as long as the pitch across the tracks.
unit_pitch_Across(stack, layer) == IF layer.dir = Horiz THEN stack.ypitch ELSE stack.xpitch

\* The pitch along the tracks of a layer (lib.rs:1276-1279).
unit_pitch(stack, layer) == IF layer.dir = Horiz THEN stack.xpitch ELSE stack.ypitch

\* The loop of convert_layer_unit (lib.rs:1282-1293) from track i on.
RECURSIVE unit_loop(_, _, _, _, _)
unit_loop(layer, ts, i, stop, elems) ==
    IF i > Len(ts) THEN Ok(elems)
    ELSE LET r == convert_track(layer,
                      [ts[i] EXCEPT !.segments = <<TrackSegment(None, 0, stop)>>])
         IN  IF r.kind = "err" THEN Err
             ELSE unit_loop(layer, ts, i + 1, stop, elems \o r.v)

\* format!("{}::unit", layer.name) (lib.rs:1295).
unit_name(layer) == layer.name \o "::unit"

\* A unit conversion that yields an empty unit cell for a Layer without raw
\* layer, where the code returns the error of convert_track.
convert_layer_unit_SkipsNoRaw(stack, layer) ==
    LET r == unit_loop(layer, tracks(layer), 1, unit_pitch(stack, layer), <<>>)
    IN  IF r.kind = "err" THEN Ok(RawCell(unit_name(layer), <<>>, <<>>))
        ELSE Ok(RawCell(unit_name(layer), <<>>, r.v))

\* RawConverter::convert_layer_unit (lib.rs:1275-1300).
convert_layer_unit(stack, layer) ==
    LET r == unit_loop(layer, tracks(layer), 1, unit_pitch(stack, layer), <<>>)
    IN  IF r.kind = "err" THEN Err ELSE Ok(RawCell(unit_name(layer), <<>>, r.v))

\* A conversion that scales x by ypitch and y by xpitch.
convert_outline_SwappedPitch(stack, outline) ==
    IF stack.boundary_layer = None THEN Err
    ELSE Ok(Element(None, stack.boundary_layer[1],
                    Poly([k \in 1..Len(points(outline)) |->
                             scale(points(outline)[k], stack.ypitch, stack.xpitch)])))

\* RawConverter::convert_outline (lib.rs:1206-1227).
convert_outline(stack, outline) ==
    IF stack.boundary_layer = None THEN Err
    ELSE Ok(Element(None, stack.boundary_layer[1],
                    Poly([k \in 1..Len(points(outline)) |->
                             scale(points(outline)[k], stack.xpitch, stack.ypitch)])))

\* RawConverter::convert_abstract (lib.rs:1194-1204).
convert_abstract(stack, abs) ==
    LET r == convert_outline(stack, abs.outline)
    IN  IF r.kind = "err" THEN Err ELSE Ok(RawCell(abs.name, <<>>, <<r.v>>))

\* lib.rs:1002-1006: the `continue` sits in the inner `for` over the cells, so it
\* moves on to the next cell; the abstract is converted whatever the names are.
abstract_skipped(lib, abs) == FALSE

\* A check that lets an outline of two x/y pairs through.
non_rectangular_MoreThanTwo(cell) == Len(cell.outline.x) > 2

\* lib.rs:1016-1020.
non_rectangular(cell) == Len(cell.outline.x) > 1

\* The definition an instance refers to (lib.rs:1034-1045): SlotMap::get, and
\* the abort for an absent key or a CellRef::Name.
resolve(lib, inst) ==
    IF inst.cell.tag = "Cell"
    THEN IF inst.cell.key \in 1..Len(lib.cells)
         THEN Value(lib.cells[inst.cell.key]) ELSE Panic
    ELSE IF inst.cell.tag = "Abstract"
    THEN IF inst.cell.key \in 1..Len(lib.abstracts)
         THEN Value(lib.abstracts[inst.cell.key]) ELSE Panic
    ELSE Panic

\* temp_instances (lib.rs:1030-1047): Panic, or the (inst, def) pairs.
temp_instances(lib, cell) ==
    IF \E k \in 1..Len(cell.instances) : resolve(lib, cell.instances[k]).kind = "panic"
    THEN Panic
    ELSE Value([k \in 1..Len(cell.instances) |->
                   [inst |-> cell.instances[k], def |-> resolve(lib, cell.instances[k]).v]])

\* lib.rs:1052-1059 for one assignment: the two Vec indexings, and the
\* subtraction below zero, abort.
assignment_indexable(cell, assn) ==
    /\ assn.at.layer < cell.top_layer
    /\ IF assn.at.relz = Above THEN assn.at.layer + 1 < cell.top_layer
       ELSE assn.at.layer >= 1 /\ assn.at.layer - 1 < cell.top_layer

\* assignments_by_layer[layernum] (lib.rs:1050-1053), layernum 0-based.
assignments_by_layer(cell, layernum) ==
    SelectSeq(cell.assignments, LAMBDA assn : assn.at.layer = layernum)

\* A filter that drops the instances whose top layer is this very layer.
comes_up_to_StrictlyAbove(ti, layer) == ti.def.top_layer > layer.index

\* lib.rs:1069, the instances that come up to this layer.
comes_up_to(ti, layer) == ti.def.top_layer >= layer.index

\* lib.rs:1086-1091, the instances that intersect row rown.
intersects_row(ti, layer, rown) ==
    /\ coord(ti.inst.p0, other(layer.dir)) <= rown
    /\ coord(ti.inst.p0, other(layer.dir)) + max(ti.def.outline, other(layer.dir)) > rown

\* lib.rs:1098-1103, the blockage of one instance, in pitches.
blockage(ti, layer) ==
    <<coord(ti.inst.p0, layer.dir),
      coord(ti.inst.p0, layer.dir) + max(ti.def.outline, layer.dir)>>

\* lib.rs:1074-1077: (m, n, pitch).
rows_of(stack, cell, layer) ==
    IF layer.dir = Horiz THEN cell.outline.y[1] ELSE cell.outline.x[1]
row_len(stack, cell, layer) ==
    IF layer.dir = Horiz THEN cell.outline.x[1] ELSE cell.outline.y[1]
along_pitch(stack, layer) ==
    IF layer.dir = Horiz THEN stack.xpitch ELSE stack.ypitch

\* The loops of TrackPeriod::cut (lib.rs:487-495) over one Vec<Track> from i on.
RECURSIVE cut_tracks(_, _, _, _)
cut_tracks(ts, i, start, stop) ==
    IF i > Len(ts) THEN Ok(ts)
    ELSE LET r == Track_cut(ts[i].segments, start, stop) IN
         IF r.res = LayoutResultErr THEN Err
         ELSE cut_tracks([ts EXCEPT ![i].segments = r.segs], i + 1, start, stop)

\* TrackPeriod::cut (lib.rs:487-495).
TrackPeriod_cut(period, start, stop) ==
    LET r == cut_tracks(period.rails, 1, start, stop) IN
    IF r.kind = "err" THEN Err
    ELSE LET q == cut_tracks(period.signals, 1, start, stop) IN
         IF q.kind = "err" THEN Err
         ELSE Ok([rails |-> r.v, signals |-> q.v])

\* lib.rs:1108, the range cut for the blockage (n1, n2) at pitch p.
cut_range(b, p) == <<b[1] * p, b[2] * p>>

\* lib.rs:1107-1109: every range of cuts cut from the period, from range i on.
RECURSIVE cut_blockages(_, _, _)
cut_blockages(period, cuts, i) ==
    IF i > Len(cuts) THEN Ok(period)
    ELSE LET r == TrackPeriod_cut(period, cuts[i][1], cuts[i][2]) IN
         IF r.kind = "err" THEN Err ELSE cut_blockages(r.v, cuts, i + 1)

\* The bitwise and of two naturals.
RECURSIVE BitAnd(_, _)
BitAnd(a, b) ==
    IF a = 0 \/ b = 0 THEN 0
    ELSE (a % 2) * (b % 2) + 2 * BitAnd(a \div 2, b \div 2)

\* lib.rs:1125, the index of the assigned track among the row's signals (0-based).
assigned_track(assn, nsig) == BitAnd(assn.at.track, nsig)

\* lib.rs:1116-1119, the assignments handled in row rown.
relevant(assn, rown, nsig) ==
    /\ assn.at.track >= rown * nsig
    /\ assn.at.track < (rown + 1) * nsig

\* lib.rs:1123-1140 from assignment i on: panic, err, or the period with the nets bound.
RECURSIVE assign_loop(_, _, _, _, _)
assign_loop(stack, layernum, period, as, i) ==
    IF i > Len(as) THEN Ok(period)
    ELSE LET assn == as[i]
             nsig == Len(period.signals)
             t == assigned_track(assn, nsig)
             o == IF assn.at.relz = Above THEN layernum + 1 ELSE layernum - 1
         IN  IF t >= nsig THEN Panic
             ELSE IF ~(o + 1 \in 1..Len(stack.layers)) THEN Panic
             ELSE LET dist == signal_track_center(stack.layers[o + 1], assn.at.at) IN
                  IF dist.kind = "panic" THEN Panic
                  ELSE LET seg == Track_segment_at(period.signals[t + 1].segments, dist.v) IN
                       IF seg = None THEN Err
                       ELSE assign_loop(stack, layernum,
                                [period EXCEPT !.signals[t + 1].segments[seg[1]].net =
                                                   Some(assn.net)],
                                as, i + 1)

\* push_track for every track of ts from i on (lib.rs:1147-1158): panic on the
\* unwrap of an Err, or the shifted elements.
RECURSIVE push_tracks(_, _, _, _, _)
push_tracks(layer, ts, i, sh, elems) ==
    IF i > Len(ts) THEN Ok(elems)
    ELSE LET r == convert_track(layer, ts[i]) IN
         IF r.kind = "err" THEN Panic
         ELSE push_tracks(layer, ts, i + 1, sh,
                  elems \o [k \in 1..Len(r.v) |->
                               [r.v[k] EXCEPT !.inner = shift(r.v[k].inner, sh)]])

\* lib.rs:1146, the shift of row rown.
row_shift(stack, layer, rown) == offset(rown * along_pitch(stack, layer), other(layer.dir))

\* lib.rs:1069-1095: the instances reaching up to the layer that intersect row rown.
row_instances(lib, cell, layer, rown) ==
    SelectSeq(SelectSeq(temp_instances(lib, cell).v, LAMBDA ti : comes_up_to(ti, layer)),
              LAMBDA ti : intersects_row(ti, layer, rown))

\* What a pass of the row loop registered: the blockages pushed at
\* lib.rs:1098-1103, the instances they come from, and the ranges cut for
\* them at lib.rs:1107-1109.
row_info(stack, layernum, rown, layer, intersecting) ==
    [layernum |-> layernum, rown |-> rown,
     blockages |-> [k \in 1..Len(intersecting) |-> blockage(intersecting[k], layer)],
     insts |-> [k \in 1..Len(intersecting) |-> intersecting[k].inst.inst_name],
     cuts |-> [k \in 1..Len(intersecting) |->
                  cut_range(blockage(intersecting[k], layer), along_pitch(stack, layer))]]

row_result(kind, info, period, elems) ==
    [kind |-> kind, info |-> info, period |-> period, elems |-> elems]

\* lib.rs:1142-1159: the tracks of the row converted, shifted and collected.
row_push(layer, sh, info, period) ==
    LET rails == push_tracks(layer, period.rails, 1, sh, <<>>)
        sigs == push_tracks(layer, period.signals, 1, sh, <<>>)
    IN  IF rails.kind = "panic" \/ sigs.kind = "panic"
        THEN row_result("panic", info, period, <<>>)
        ELSE row_result("ok", info, period, rails.v \o sigs.v)

\* lib.rs:1111-1140: the assignments of the row bound to their segments.
row_assign(stack, cell, layer, layernum, rown, info, period) ==
    LET as == SelectSeq(assignments_by_layer(cell, layernum),
                        LAMBDA assn : relevant(assn, rown, Len(period.signals)))
        bound == assign_loop(stack, layernum, period, as, 1)
    IN  IF bound.kind # "ok"
        THEN row_result(bound.kind, info, period, <<>>)
        ELSE row_push(layer, row_shift(stack, layer, rown), info, bound.v)

\* lib.rs:1105-1109: a fresh track period, cut at every blockage of the row.
row_cut(stack, cell, layer, layernum, rown, info) ==
    LET p == along_pitch(stack, layer)
        fresh == to_track_period(layer, p * row_len(stack, cell, layer))
        cutp == cut_blockages(fresh, info.cuts, 1)
    IN  IF cutp.kind = "err"
        THEN row_result("err", info, fresh, <<>>)
        ELSE row_assign(stack, cell, layer, layernum, rown, info, cutp.v)

\* One pass of the row loop (lib.rs:1080-1160) for row rown of layer layernum
\* (0-based): what the row registered, and how the pass ended.
convert_row(lib, cell, layernum, rown) ==
    row_cut(lib.stack, cell, lib.stack.layers[layernum + 1], layernum, rown,
            row_info(lib.stack, layernum, rown, lib.stack.layers[layernum + 1],
                     row_instances(lib, cell, lib.stack.layers[layernum + 1], rown)))

\* A scaling that multiplies x by ypitch and y by xpitch.
scaled_instances_SwappedPitch(stack, cell) ==
    [k \in 1..Len(cell.instances) |->
        [cell.instances[k] EXCEPT !.p0 = scale(@, stack.ypitch, stack.xpitch)]]

\* lib.rs:1172-1182, the instances with their placement scaled by the pitches.
scaled_instances(stack, cell) ==
    [k \in 1..Len(cell.instances) |->
        [cell.instances[k] EXCEPT !.p0 = scale(@, stack.xpitch, stack.ypitch)]]

(***************************************************************************)
(* Inputs of the track specifications.                                     *)
(***************************************************************************)
\* The net of a rail segment as Layer::to_track_period builds it (lib.rs:184).
RailNet == Some("POWER_OR_GROUND_HERE_BRO")

SegNets == {None, Some("clk")}

\* Every list of at most n segments with lo <= start < stop <= MaxCoord that is
\* sorted by start and non-overlapping (each start >= the previous stop).
RECURSIVE SortedFrom(_, _)
SortedFrom(lo, n) ==
    IF n = 0 THEN {<<>>}
    ELSE {<<>>} \cup
         UNION {UNION {{<<TrackSegment(net, a, b)>> \o rest :
                            net \in SegNets, rest \in SortedFrom(b, n - 1)} :
                       b \in (a + 1)..MaxCoord} :
                a \in lo..MaxCoord}

SortedLists == SortedFrom(0, MaxSegs)

NoCall == [op |-> "none"]

NoRow == [kind |-> "none"]

\* The track specifications convert nothing.
ConvIdle ==
    /\ self_lib = <<>> /\ pc = "idle" /\ pass = 0 /\ cur_layernum = 0 /\ cur_rown = 0
    /\ cell_elems = <<>> /\ out = <<>> /\ result = "idle" /\ row = NoRow

(***************************************************************************)
(* SpecTrack: one Track method applied to a sorted, non-overlapping track. *)
(***************************************************************************)
InitTrack ==
    /\ segments \in SortedLists
    /\ call = NoCall
    /\ ncalls = 0
    /\ ConvIdle

CallCut(start, stop) ==
    /\ ncalls < 1
    /\ LET r == Track_cut(segments, start, stop) IN
        /\ segments' = r.segs
        /\ call' = [op |-> "cut", start |-> start, stop |-> stop,
                    before |-> segments, res |-> r.res]
    /\ ncalls' = ncalls + 1
    /\ UNCHANGED convvars

CallSegmentAt(dist) ==
    /\ ncalls < 1
    /\ call' = [op |-> "segment_at", dist |-> dist, before |-> segments,
                res |-> Track_segment_at(segments, dist)]
    /\ segments' = segments
    /\ ncalls' = ncalls + 1
    /\ UNCHANGED convvars

CallStop(x) ==
    /\ ncalls < 1
    /\ LET r == Track_stop(segments, x) IN
        /\ segments' = r.segs
        /\ call' = [op |-> "stop", stop |-> x, before |-> segments, res |-> r.res]
    /\ ncalls' = ncalls + 1
    /\ UNCHANGED convvars

NextTrack ==
    \/ \E start \in Coords, stop \in Coords : CallCut(start, stop)
    \/ \E dist \in -1..(MaxCoord + 1) : CallSegmentAt(dist)
    \/ \E x \in Coords : CallStop(x)

SpecTrack == InitTrack /\ [][NextTrack]_vars

(***************************************************************************)
(* SpecCuts: a track as Layer::to_track_period builds it, one segment      *)
(* [0, S), and then a sequence of Track::cut calls (lib.rs:1106-1109).     *)
(***************************************************************************)
InitCuts ==
    /\ \E S \in 1..MaxCoord, net \in {None, RailNet} :
           segments = <<TrackSegment(net, 0, S)>>
    /\ call = NoCall
    /\ ncalls = 0
    /\ ConvIdle

CutAgain(start, stop) ==
    /\ ncalls < MaxCuts
    /\ LET r == Track_cut(segments, start, stop) IN
        /\ segments' = r.segs
        /\ call' = [op |-> "cut", start |-> start, stop |-> stop, res |-> r.res]
    /\ ncalls' = ncalls + 1
    /\ UNCHANGED convvars

NextCuts == \E start \in Coords, stop \in Coords : CutAgain(start, stop)

SpecCuts == InitCuts /\ [][NextCuts]_vars

(***************************************************************************)
(* SpecOutline: one call of Outline::new on any two vectors, or of         *)
(* Outline::points on an Outline that Outline::new built.                  *)
(***************************************************************************)
\* Outlines of the converted cells are 1..MaxExtent pitches wide and high;
\* the vectors handed to Outline::new hold values in 0..MaxExtent.
MaxExtent == 2

\* The longest x and y vectors handed to Outline::new.
MaxPairs == 2

OutlineVectors == UNION {[1..n -> 0..MaxExtent] : n \in 0..MaxPairs}

InitOutline ==
    /\ segments = <<>>
    /\ call = NoCall
    /\ ncalls = 0
    /\ ConvIdle

CallOutlineNew(x, y) ==
    /\ ncalls < 1
    /\ call' = [op |-> "new", x |-> x, y |-> y, res |-> Outline_new(x, y)]
    /\ ncalls' = ncalls + 1
    /\ UNCHANGED <<segments, convvars>>

CallPoints(x, y) ==
    /\ ncalls < 1
    /\ Outline_new(x, y).kind = "ok"
    /\ call' = [op |-> "points", outline |-> Outline_new(x, y).v,
                res |-> points(Outline_new(x, y).v)]
    /\ ncalls' = ncalls + 1
    /\ UNCHANGED <<segments, convvars>>

NextOutline ==
    \/ \E x \in OutlineVectors, y \in OutlineVectors : CallOutlineNew(x, y)
    \/ \E x \in OutlineVectors, y \in OutlineVectors : CallPoints(x, y)

SpecOutline == InitOutline /\ [][NextOutline]_vars

(***************************************************************************)
(* Layers flattened: Layer::flat_entries, ::pitch, ::num_signal_tracks and *)
(* ::signal_track_center (lib.rs:239-294) applied to a Layer.              *)
(***************************************************************************)
\* The widest TrackEntry of a generated Layer.
MaxWidth == 2

\* The largest nrep of a generated Pattern.
MaxRep == 2

\* The most TrackSpecs in the entries of a generated Layer.
MaxSpecs == 2

\* The largest idx handed to signal_track_center.
MaxIdx == 4

\* The largest stop handed to to_track_period.
MaxStop == 2

\* The Pattern of tests::stack (lib.rs:1506).
ExamplePattern == SpecPat(<<TrackEntry(230, Gap), TrackEntry(140, Signal)>>, 7)

\* The entries of layer met1 of tests::stack (lib.rs:1504-1512).
ExampleEntries ==
    <<SpecRail(490), ExamplePattern, SpecGap(230), SpecRail(490), ExamplePattern,
      SpecGap(230), SpecRail(490)>>

LiteralEntries == {TrackEntry(w, t) : w \in 1..MaxWidth, t \in {Gap, Signal, Rail}}

\* Pattern bodies: empty, a lone signal, and gap-then-signal as in tests::stack.
PatternBodies ==
    {<<>>, <<TrackEntry(1, Signal)>>, <<TrackEntry(1, Gap), TrackEntry(MaxWidth, Signal)>>}

TrackSpecs ==
    {SpecEntry(e) : e \in LiteralEntries}
        \cup {SpecPat(b, nrep) : b \in PatternBodies, nrep \in 0..MaxRep}

EntryLists ==
    UNION {[1..n -> TrackSpecs] : n \in 0..MaxSpecs}
        \cup {<<ExamplePattern>>, ExampleEntries}

\* The offsets of the generated Layers (met1 of tests::stack has a negative one).
Offsets == {-1, 0}

Layers == {Layer(1, "met1", Horiz, es, off, None) : es \in EntryLists, off \in Offsets}

InitLayer ==
    /\ segments = <<>>
    /\ call \in {[op |-> "none", layer |-> l] : l \in Layers}
    /\ ncalls = 0
    /\ ConvIdle

CallFlatEntries ==
    /\ ncalls < 1
    /\ call' = [op |-> "flat_entries", layer |-> call.layer,
                res |-> flat_entries(call.layer)]
    /\ ncalls' = ncalls + 1
    /\ UNCHANGED <<segments, convvars>>

CallPitch ==
    /\ ncalls < 1
    /\ call' = [op |-> "pitch", layer |-> call.layer, res |-> pitch(call.layer)]
    /\ ncalls' = ncalls + 1
    /\ UNCHANGED <<segments, convvars>>

CallSignalTrackCenter(idx) ==
    /\ ncalls < 1
    /\ call' = [op |-> "signal_track_center", layer |-> call.layer, idx |-> idx,
                res |-> signal_track_center(call.layer, idx)]
    /\ ncalls' = ncalls + 1
    /\ UNCHANGED <<segments, convvars>>

CallToTrackPeriod(stop) ==
    /\ ncalls < 1
    /\ call' = [op |-> "to_track_period", layer |-> call.layer, stop |-> stop,
                res |-> to_track_period(call.layer, stop)]
    /\ ncalls' = ncalls + 1
    /\ UNCHANGED <<segments, convvars>>

NextLayer ==
    \/ CallFlatEntries
    \/ CallPitch
    \/ \E stop \in 0..MaxStop : CallToTrackPeriod(stop)
    \/ \E idx \in 0..MaxIdx : CallSignalTrackCenter(idx)

SpecLayer == InitLayer /\ [][NextLayer]_vars

(***************************************************************************)
(* Elements exported: raw::Shape::orientation and                          *)
(* raw::GdsConverter::convert_element applied to an Element.               *)
(***************************************************************************)
\* The corners of a generated shape have coordinates in -MaxXY..MaxXY.
MaxXY == 1

Corners == {Point(x, y) : x, y \in (-MaxXY)..MaxXY}

\* Every rectangle, and no point, a triangle and a rectangle as polygons.
Shapes ==
    {Rect(p0, p1) : p0, p1 \in Corners}
        \cup {Poly(<<>>),
              Poly(<<Point(0, 0), Point(MaxXY, 0), Point(0, MaxXY)>>),
              Poly(<<Point(0, 0), Point(MaxXY, 0), Point(MaxXY, MaxXY), Point(0, MaxXY)>>)}

\* Layers with and without a drawing and a text datatype.
ElementLayers ==
    {DataTypeMap(68, d, t) : d \in {None, Some(20)}, t \in {None, Some(5)}}

Elements ==
    {Element(net, layer, inner) :
        net \in {None, Some("clk")}, layer \in ElementLayers, inner \in Shapes}

InitGds ==
    /\ segments = <<>>
    /\ call \in {[op |-> "none", elem |-> e] : e \in Elements}
    /\ ncalls = 0
    /\ ConvIdle

CallOrientation ==
    /\ ncalls < 1
    /\ call' = [op |-> "orientation", elem |-> call.elem,
                res |-> Shape_orientation(call.elem.inner)]
    /\ ncalls' = ncalls + 1
    /\ UNCHANGED <<segments, convvars>>

CallConvertElement ==
    /\ ncalls < 1
    /\ call' = [op |-> "convert_element", elem |-> call.elem,
                res |-> convert_element(call.elem)]
    /\ ncalls' = ncalls + 1
    /\ UNCHANGED <<segments, convvars>>

NextGds == CallOrientation \/ CallConvertElement

SpecGds == InitGds /\ [][NextGds]_vars

(***************************************************************************)
(* layout21utils::error (error.rs): ErrorHelper::fail and the Unwrapper    *)
(* implementations for Option and Result.  A helper is an implementer of   *)
(* ErrorHelper that, like HasFunErrors of the module's example, supplies   *)
(* err and takes the provided fail.                                        *)
(***************************************************************************)
\* An Err carrying its error value.
ErrOf(e) == [kind |-> "err", e |-> e]

\* ErrorHelper::err of an implementer (error.rs:14-16, 44): the helper's own
\* error value, built from its state and the message.
ErrorHelper_err(helper, msg) == [by |-> helper, msg |-> msg]

\* ErrorHelper::fail (error.rs:46-48).
ErrorHelper_fail(helper, msg) == ErrOf(ErrorHelper_err(helper, msg))

\* <Option<T> as Unwrapper>::or_handle (error.rs:126-134).
Option_or_handle(opt, helper, msg) ==
    IF opt # None THEN Ok(opt[1]) ELSE ErrorHelper_fail(helper, msg)

\* An or_handle that hands the Result's own error on.
Result_or_handle_KeepsError(res, helper, msg) ==
    IF res.kind = "ok" THEN Ok(res.v) ELSE res

\* <Result<T, E> as Unwrapper>::or_handle (error.rs:143-155).
Result_or_handle(res, helper, msg) ==
    IF res.kind = "ok" THEN Ok(res.v) ELSE ErrorHelper_fail(helper, msg)

\* The values wrapped are 0..MaxVal.
MaxVal == 5

Helpers == {"HasFunErrors", "RawConverter", "GdsConverter"}
Messages == {"Option failed!", "Result failed!"}

\* The error values of the Results or_handle is called on.
OriginalErrors == {[by |-> "LayoutError", msg |-> "Tbd"], [by |-> "io", msg |-> "not found"]}

\* The Options and the Results or_handle is called on.
UnwrappedOptions ==
    {[type |-> "Option", val |-> None]}
        \cup {[type |-> "Option", val |-> Some(t)] : t \in 0..MaxVal}

UnwrappedResults ==
    {[type |-> "Result", val |-> Ok(t)] : t \in 0..MaxVal}
        \cup {[type |-> "Result", val |-> ErrOf(e)] : e \in OriginalErrors}

InitUnwrap ==
    /\ segments = <<>>
    /\ \/ call \in {[op |-> "none", self |-> u, helper |-> h, msg |-> m] :
                       u \in UnwrappedOptions, h \in Helpers, m \in Messages}
       \/ call \in {[op |-> "none", self |-> u, helper |-> h, msg |-> m] :
                       u \in UnwrappedResults, h \in Helpers, m \in Messages}
    /\ ncalls = 0
    /\ ConvIdle

CallOrHandle ==
    /\ ncalls < 1
    /\ call' = [op |-> "or_handle", self |-> call.self, helper |-> call.helper,
                msg |-> call.msg,
                res |-> IF call.self.type = "Option"
                        THEN Option_or_handle(call.self.val, call.helper, call.msg)
                        ELSE Result_or_handle(call.self.val, call.helper, call.msg)]
    /\ ncalls' = ncalls + 1
    /\ UNCHANGED <<segments, convvars>>

NextUnwrap == CallOrHandle

SpecUnwrap == InitUnwrap /\ [][NextUnwrap]_vars

(***************************************************************************)
(* The Libraries converted.  The Stacks follow tests::stack                *)
(* (lib.rs:1487-1621) with small widths and pitches; the Libraries follow  *)
(* tests::create_lib, ::create_lib2 and ::create_lib3 (lib.rs:1645-1818).  *)
(***************************************************************************)
BoundaryLayer == DataTypeMap(236, Some(0), None)

\* rail [-1,1), signals at 2 and 4, pitch 6.
LayerA1 ==
    Layer(1, "met1", Horiz,
          <<SpecRail(2), SpecPat(<<TrackEntry(1, Gap), TrackEntry(1, Signal)>>, 2)>>,
          -1, Some(DataTypeMap(68, Some(20), Some(5))))

\* one signal at [1,3), pitch 4.
LayerA2 ==
    Layer(2, "met2", Vert, <<SpecGap(1), SpecSig(2), SpecGap(1)>>,
          0, Some(DataTypeMap(69, Some(20), Some(5))))

StackA == Stack(4, 6, Some(BoundaryLayer), <<LayerA1, LayerA2>>)

\* one signal at 0, a rail at 2, pitch 3.
LayerB0 ==
    Layer(0, "m0", Vert, <<SpecSig(1), SpecGap(1), SpecRail(1)>>,
          0, Some(DataTypeMap(10, Some(20), Some(5))))

\* signals at 1, 2 and 3, pitch 5.
LayerB1 ==
    Layer(1, "m1", Horiz, <<SpecGap(1), SpecPat(<<TrackEntry(1, Signal)>>, 3), SpecGap(1)>>,
          0, Some(DataTypeMap(11, Some(20), Some(5))))

StackB == Stack(3, 5, Some(BoundaryLayer), <<LayerB0, LayerB1>>)

\* StackA without a boundary layer, and StackA whose second layer has no raw layer.
StackNoBoundary == [StackA EXCEPT !.boundary_layer = None]
StackNoRaw == [StackA EXCEPT !.layers[2].raw = None]

\* An assignment's track index is in 0..MaxTrack.
MaxTrack == 5

\* An assignment's intersecting track index is in 0..MaxAt.
MaxAt == 2

\* The most instances a cell has.
MaxInsts == 2

rect(x, y) == Outline(<<x>>, <<y>>)

\* One cell, no instances, one net assignment (tests::create_lib).
AssignLibs ==
    {Library("HereGoesLib", st, <<>>,
             <<Cell("HereGoes", tl, rect(w, h), <<>>,
                    <<Assign("clk", TrackIntersection(l, t, a, z))>>)>>) :
        st \in {StackA, StackB}, tl \in 0..3, w \in 1..MaxExtent, h \in 1..MaxExtent,
        l \in 0..2, t \in 0..MaxTrack, a \in 0..MaxAt, z \in {Above, Below}}

IsInst == Cell("IsInst", 2, rect(1, 1), <<>>, <<>>)
IsAbstrakt == Abstract("IsAbstrakt", rect(2, 1), 1)
HasInstOutline == rect(2, 3)

\* The instance values of the libraries with instances: of the cell IsInst
\* (key 1) or of the abstract IsAbstrakt (key 1), placed inside the outline
\* of the cell that holds them.
InstValues ==
    {[cell_name |-> c[1], cell |-> c[2], p0 |-> Point(x, y)] :
        c \in {<<"IsInst", CellRefCell(1)>>, <<"IsAbstrakt", CellRefAbstract(1)>>},
        x \in 0..(xmax(HasInstOutline) - 1), y \in 0..(ymax(HasInstOutline) - 1)}

InstLists == UNION {[1..n -> InstValues] : n \in 0..MaxInsts}

named(insts) ==
    [k \in 1..Len(insts) |->
        Instance("inst" \o ToString(k), insts[k].cell_name, insts[k].cell, insts[k].p0)]

\* A cell with instances of a cell and of an abstract (tests::create_lib2, ::create_lib3).
InstLibs ==
    {Library("InstLib", st, <<IsAbstrakt>>,
             <<IsInst, Cell("HasInst", 2, HasInstOutline, named(insts), <<>>)>>) :
        st \in {StackA, StackB}, insts \in InstLists}

\* Cell references that resolve to nothing: a key of no cell, a key of no
\* abstract, a bare name.
BadRefs == {CellRefCell(3), CellRefAbstract(2), CellRefName("IsInst")}

BadRefLibs ==
    {Library("InstLib", StackA, <<IsAbstrakt>>,
             <<IsInst, Cell("HasInst", tl, rect(2, 2), named(insts), <<>>)>>) :
        tl \in 0..2,
        insts \in UNION {{<<[cell_name |-> "Gone", cell |-> r, p0 |-> Point(0, 0)]>>,
                          <<[cell_name |-> "Gone", cell |-> r, p0 |-> Point(0, 0)], v>>,
                          <<v, [cell_name |-> "Gone", cell |-> r, p0 |-> Point(0, 0)]>>} :
                         r \in BadRefs,
                         v \in {i \in InstValues : i.p0 = Point(0, 0)}}}

\* Cells whose outline has two or three x/y pairs, with and without instances
\* and assignments that cannot be resolved.
NonRectLibs ==
    {Library("StairLib", StackA, <<IsAbstrakt>>,
             <<IsInst, Cell("Stair", 2, o, named(insts), as)>>) :
        o \in {Outline(<<2, 1>>, <<1, 2>>), Outline(<<2, 2>>, <<1, 1>>),
               Outline(<<3, 2, 1>>, <<1, 2, 3>>)},
        insts \in {<<>>, <<[cell_name |-> "IsInst", cell |-> CellRefCell(1), p0 |-> Point(0, 0)]>>,
                   <<[cell_name |-> "Gone", cell |-> CellRefName("Gone"), p0 |-> Point(0, 0)]>>,
                   <<[cell_name |-> "Gone", cell |-> CellRefCell(3), p0 |-> Point(0, 0)]>>},
        as \in {<<>>, <<Assign("clk", TrackIntersection(0, 0, 0, Above))>>,
                <<Assign("clk", TrackIntersection(0, 0, 0, Below))>>,
                <<Assign("clk", TrackIntersection(2, 0, 0, Above))>>}}

Plain(name) == Cell(name, 1, rect(1, 1), <<>>, <<>>)

\* Libraries of up to two cells and up to two abstracts, each kind with
\* distinct names, which may be shared between a cell and an abstract.
NameLibs ==
    {Library("Names", st, [k \in 1..Len(an) |-> Abstract(an[k], rect(1, 2), 1)],
             [k \in 1..Len(cn) |-> Plain(cn[k])]) :
        st \in {StackA, StackB, StackNoBoundary, StackNoRaw},
        cn \in {<<>>, <<"A">>, <<"B">>, <<"A", "B">>, <<"B", "A">>},
        an \in {<<>>, <<"A">>, <<"B">>, <<"C">>, <<"A", "B">>, <<"B", "A">>, <<"A", "C">>,
                <<"C", "A">>, <<"C", "B">>}}

\* A cell with one instance and one net assignment (tests::create_lib2).
AssignInstLibs ==
    {Library("InstLib", st, <<IsAbstrakt>>,
             <<IsInst, Cell("HasInst", 2, HasInstOutline, named(<<i>>),
                            <<Assign("clk", TrackIntersection(l, t, a, z))>>)>>) :
        st \in {StackA, StackB}, i \in InstValues,
        l \in 0..1, t \in 0..1, a \in 0..MaxAt, z \in {Above, Below}}

Libraries(l) ==
    \/ l \in AssignLibs
    \/ l \in AssignInstLibs
    \/ l \in InstLibs
    \/ l \in BadRefLibs
    \/ l \in NonRectLibs
    \/ l \in NameLibs

(***************************************************************************)
(* Spec: RawConverter::convert (lib.rs:984-1010) on a Library drawn from   *)
(* Libraries.  One action per pass of each loop of convert_all and of      *)
(* convert_cell; when the conversion returns an error or aborts, pc and    *)
(* pass stay where it happened.                                            *)
(***************************************************************************)
\* The next pending pass of convert_all at or after pass i of a phase.
RECURSIVE goto(_, _, _)
goto(l, phase, i) ==
    IF phase = "units"
    THEN IF i <= Len(l.stack.layers) THEN <<"unit", i>> ELSE goto(l, "cells", 1)
    ELSE IF phase = "cells"
    THEN IF i <= Len(l.cells) THEN <<"cell", i>> ELSE goto(l, "abstracts", 1)
    ELSE IF i <= Len(l.abstracts) THEN <<"abstract", i>> ELSE <<"done", 0>>

Running == result = "running"

\* Move convert_all on to pass i of a phase; past the last pass it returns Ok(lib).
Advance(phase, i) ==
    /\ pc' = goto(self_lib, phase, i)[1]
    /\ pass' = goto(self_lib, phase, i)[2]
    /\ result' = IF goto(self_lib, phase, i)[1] = "done" THEN "Ok" ELSE "running"

\* The conversion ends here, with an error returned or with an abort.
Stop(how) ==
    /\ result' = how
    /\ UNCHANGED <<pc, pass>>

outcome(kind) == IF kind = "err" THEN "Err" ELSE "panic"

Init ==
    /\ Libraries(self_lib)
    /\ pc = goto(self_lib, "units", 1)[1]
    /\ pass = goto(self_lib, "units", 1)[2]
    /\ result = IF goto(self_lib, "units", 1)[1] = "done" THEN "Ok" ELSE "running"
    /\ cur_layernum = 0 /\ cur_rown = 0
    /\ cell_elems = <<>> /\ out = <<>> /\ row = NoRow
    /\ segments = <<>> /\ call = NoCall /\ ncalls = 0

\* lib.rs:991-994, one pass.
ConvertLayerUnit ==
    /\ Running /\ pc = "unit"
    /\ LET r == convert_layer_unit(self_lib.stack, self_lib.stack.layers[pass]) IN
       IF r.kind = "err"
       THEN Stop("Err") /\ out' = out
       ELSE Advance("units", pass + 1) /\ out' = Append(out, r.v)
    /\ UNCHANGED <<self_lib, cur_layernum, cur_rown, cell_elems, row, trackvars>>

\* convert_cell up to its layer loop (lib.rs:1012-1059).
CellStart ==
    /\ Running /\ pc = "cell"
    /\ LET cell == self_lib.cells[pass] IN
       IF non_rectangular(cell) THEN Stop("Err")
       ELSE IF temp_instances(self_lib, cell).kind = "panic" THEN Stop("panic")
       ELSE IF \E k \in 1..Len(cell.assignments) :
                   ~assignment_indexable(cell, cell.assignments[k])
            THEN Stop("panic")
       ELSE pc' = "layer" /\ UNCHANGED <<pass, result>>
    /\ cur_layernum' = 0 /\ cur_rown' = 0 /\ cell_elems' = <<>> /\ row' = NoRow
    /\ UNCHANGED <<self_lib, out, trackvars>>

\* The head of the layer loop (lib.rs:1062-1078).
LayerStart ==
    /\ Running /\ pc = "layer"
    /\ LET cell == self_lib.cells[pass] IN
       IF cur_layernum >= cell.top_layer
       THEN pc' = "outline" /\ UNCHANGED <<pass, result, cur_layernum>>
       ELSE IF cur_layernum + 1 > Len(self_lib.stack.layers)
       THEN Stop("panic") /\ UNCHANGED cur_layernum
       ELSE IF rows_of(self_lib.stack, cell, self_lib.stack.layers[cur_layernum + 1]) = 0
       THEN cur_layernum' = cur_layernum + 1 /\ UNCHANGED <<pc, pass, result>>
       ELSE pc' = "row" /\ UNCHANGED <<pass, result, cur_layernum>>
    /\ cur_rown' = 0
    /\ UNCHANGED <<self_lib, cell_elems, out, row, trackvars>>

\* One pass of the row loop (lib.rs:1080-1160).
ConvertRow ==
    /\ Running /\ pc = "row"
    /\ LET cell == self_lib.cells[pass]
           r == convert_row(self_lib, cell, cur_layernum, cur_rown)
       IN  /\ row' = [kind |-> r.kind, info |-> r.info, period |-> r.period]
           /\ IF r.kind # "ok"
              THEN Stop(outcome(r.kind)) /\ UNCHANGED <<cell_elems, cur_layernum, cur_rown>>
              ELSE /\ cell_elems' = cell_elems \o r.elems
                   /\ UNCHANGED <<pass, result>>
                   /\ IF cur_rown + 1 < rows_of(self_lib.stack, cell, self_lib.stack.layers[cur_layernum + 1])
                      THEN cur_rown' = cur_rown + 1 /\ UNCHANGED <<pc, cur_layernum>>
                      ELSE pc' = "layer" /\ cur_layernum' = cur_layernum + 1 /\ cur_rown' = 0
    /\ UNCHANGED <<self_lib, out, trackvars>>

\* The tail of convert_cell (lib.rs:1168-1189) and the push of lib.rs:997.
CellFinish ==
    /\ Running /\ pc = "outline"
    /\ LET cell == self_lib.cells[pass]
           r == convert_outline(self_lib.stack, cell.outline)
       IN  IF r.kind = "err"
           THEN Stop("Err") /\ UNCHANGED <<out, cell_elems>>
           ELSE /\ out' = Append(out, RawCell(cell.name, scaled_instances(self_lib.stack, cell),
                                               Append(cell_elems, r.v)))
                /\ cell_elems' = Append(cell_elems, r.v)
                /\ Advance("cells", pass + 1)
    /\ row' = NoRow
    /\ UNCHANGED <<self_lib, cur_layernum, cur_rown, trackvars>>

\* lib.rs:1000-1008, one pass.
ConvertAbstract ==
    /\ Running /\ pc = "abstract"
    /\ LET abs == self_lib.abstracts[pass]
           r == convert_abstract(self_lib.stack, abs)
       IN  IF abstract_skipped(self_lib, abs)
           THEN Advance("abstracts", pass + 1) /\ out' = out
           ELSE IF r.kind = "err" THEN Stop("Err") /\ out' = out
           ELSE Advance("abstracts", pass + 1) /\ out' = Append(out, r.v)
    /\ UNCHANGED <<self_lib, cur_layernum, cur_rown, cell_elems, row, trackvars>>

Next ==
    \/ ConvertLayerUnit
    \/ CellStart
    \/ LayerStart
    \/ ConvertRow
    \/ CellFinish
    \/ ConvertAbstract

Spec == Init /\ [][Next]_vars

(***************************************************************************)
(* Vocabulary of the properties.                                           *)
(***************************************************************************)
Min(S) == CHOOSE x \in S : \A y \in S : x <= y

\* seg shares a coordinate range of positive length with [start, stop).
Overlaps(seg, start, stop) == seg.start < stop /\ seg.stop > start

\* The parts of an overlapping segment that lie outside the cut.
PartsOutside(seg, start, stop) ==
    IF start <= seg.start /\ stop >= seg.stop THEN <<>>
    ELSE IF start > seg.start /\ stop >= seg.stop
         THEN <<TrackSegment(seg.net, seg.start, start)>>
    ELSE IF start <= seg.start /\ stop < seg.stop
         THEN <<TrackSegment(seg.net, stop, seg.stop)>>
    ELSE <<TrackSegment(seg.net, seg.start, start), TrackSegment(seg.net, stop, seg.stop)>>

\* The parts outside the cut of every overlapping segment from index i on, in order.
RECURSIVE OverlappingParts(_, _, _, _)
OverlappingParts(segs, i, start, stop) ==
    IF i > Len(segs) THEN <<>>
    ELSE (IF Overlaps(segs[i], start, stop) THEN PartsOutside(segs[i], start, stop)
          ELSE <<>>) \o OverlappingParts(segs, i + 1, start, stop)

SortedByStart(segs) ==
    \A i, j \in 1..Len(segs) : i < j => segs[i].start <= segs[j].start

NonOverlapping(segs) ==
    \A i, j \in 1..Len(segs) :
        i < j => ~(segs[i].start < segs[j].stop /\ segs[j].start < segs[i].stop)

PositiveLength(segs) == \A i \in 1..Len(segs) : segs[i].stop > segs[i].start

Seg(a, b) == TrackSegment(None, a, b)

(***************************************************************************)
(* C1: on a sorted, non-overlapping track a successful cut(start, stop)    *)
(* replaces the segments that overlap [start, stop), in place, by their    *)
(* parts outside the cut: nothing for a covered segment, (seg.start,       *)
(* start) for a tail overlap, (stop, seg.stop) for a head overlap, both    *)
(* for an internal cut.  The two examples of the specification hold.       *)
(***************************************************************************)
C1_CutReplacesOverlapping ==
    /\ (call.op = "cut" /\ call.res = LayoutResultOk) =>
          LET before == call.before
              ov == {i \in 1..Len(before) : Overlaps(before[i], call.start, call.stop)}
              parts == OverlappingParts(before, 1, call.start, call.stop)
          IN  /\ Len(segments) = Len(before) - Cardinality(ov) + Len(parts)
              /\ ov # {} =>
                    SubSeq(segments, Min(ov), Min(ov) + Len(parts) - 1) = parts
    /\ Track_cut(<<Seg(0, 100), Seg(150, 200)>>, 50, 170).segs
           = <<Seg(0, 50), Seg(170, 200)>>
    /\ Track_cut(<<Seg(100, 200)>>, 120, 160).segs = <<Seg(100, 120), Seg(160, 200)>>

\* A cut that trims the tail of one segment and splits the next one.
C1_Witness ==
    /\ call.op = "cut" /\ call.res = LayoutResultOk
    /\ \E i \in 1..Len(call.before) :
           /\ call.start > call.before[i].start /\ call.stop < call.before[i].stop
    /\ Len(segments) = Len(call.before) + 1
    /\ Len(call.before) >= 2

(***************************************************************************)
(* C2: from the single segment [0, S) of a fresh track period, after any   *)
(* sequence of cuts the segment list is sorted by start, pairwise          *)
(* non-overlapping, and every segment has stop > start.                    *)
(***************************************************************************)
C2_SegmentsStaySortedDisjoint ==
    /\ SortedByStart(segments)
    /\ NonOverlapping(segments)
    /\ PositiveLength(segments)

(***************************************************************************)
(* C3: cut returns an error exactly when stop <= start or the track has    *)
(* no segments, the error leaves the segment list unchanged, and every     *)
(* other call returns Ok.                                                  *)
(***************************************************************************)
C3_CutErrorExactly ==
    call.op = "cut" =>
        /\ (call.res = LayoutResultErr) <=>
               (call.stop <= call.start \/ Len(call.before) = 0)
        /\ call.res \in {LayoutResultOk, LayoutResultErr}
        /\ call.res = LayoutResultErr => segments = call.before

\* A rejected cut of an empty range on a track that has segments.
C3_Witness ==
    /\ call.op = "cut" /\ call.res = LayoutResultErr
    /\ Len(call.before) > 0 /\ call.stop = call.start
    /\ segments = call.before

(***************************************************************************)
(* C4: on a sorted, non-overlapping track segment_at(dist) returns the     *)
(* first segment with start <= dist <= stop, and None when there is none   *)
(* (empty track, gap, before the first, after the last, negative dist).    *)
(***************************************************************************)
C4_SegmentAtCovering ==
    call.op = "segment_at" =>
        LET covering == {i \in 1..Len(call.before) :
                            /\ call.before[i].start <= call.dist
                            /\ call.dist <= call.before[i].stop}
        IN  IF covering = {} THEN call.res = None
            ELSE call.res = Some(Min(covering))

\* dist is the stop coordinate of the second segment, past the first one.
C4_Witness ==
    /\ call.op = "segment_at" /\ call.res = Some(2)
    /\ call.dist = call.before[2].stop
    /\ call.dist > call.before[1].stop

(***************************************************************************)
(* Vocabulary of the conversion properties.                                *)
(***************************************************************************)
\* convert has returned or aborted.
Finished == result \in {"Ok", "Err", "panic"}

\* The conversion stands, or has stopped, inside cell number `pass`.
InCell == pc \in {"cell", "layer", "row", "outline"}

\* The raw cell converted from cell k, once convert has returned Ok: the
\* unit cells of the layers come first.
RawOf(k) == out[Len(self_lib.stack.layers) + k]

Rectangular(cell) == Len(cell.outline.x) = 1

\* The extent of a rectangular outline along a direction.
Extent(outline, dir) == IF dir = Horiz THEN outline.x[1] ELSE outline.y[1]

\* An instance's reference names a cell or an abstract held by the library.
Resolvable(l, inst) ==
    \/ inst.cell.tag = "Cell" /\ inst.cell.key \in DOMAIN l.cells
    \/ inst.cell.tag = "Abstract" /\ inst.cell.key \in DOMAIN l.abstracts

DefOf(l, inst) ==
    IF inst.cell.tag = "Cell" THEN l.cells[inst.cell.key] ELSE l.abstracts[inst.cell.key]

\* The layer number an assignment's intersection refers to.
AdjacentLayer(at) == IF at.relz = Above THEN at.layer + 1 ELSE at.layer - 1

\* The assignment sits on a layer of the cell, and its adjacent layer is a
\* layer of the cell and of the Stack.
HasAdjacentLayer(l, cell, at) ==
    /\ at.layer \in 0..(cell.top_layer - 1)
    /\ AdjacentLayer(at) \in 0..(cell.top_layer - 1)
    /\ AdjacentLayer(at) \in 0..(Len(l.stack.layers) - 1)

\* The rail and signal tracks of every row of the n lowest layers.
RECURSIVE TracksBelow(_, _, _)
TracksBelow(stack, cell, n) ==
    IF n = 0 THEN 0
    ELSE TracksBelow(stack, cell, n - 1)
         + Extent(cell.outline, other(stack.layers[n].dir))
           * Cardinality({i \in 1..Len(flat_entries(stack.layers[n])) :
                             flat_entries(stack.layers[n])[i].ttype # Gap})

\* The library holds one rectangular cell without instances and with one
\* assignment, and nothing else.
OneCellOneAssignment(l) ==
    /\ Len(l.abstracts) = 0 /\ Len(l.cells) = 1
    /\ Rectangular(l.cells[1])
    /\ Len(l.cells[1].instances) = 0
    /\ Len(l.cells[1].assignments) = 1

\* The one assignment names an existing signal track of an existing row, and
\* an existing signal track of the adjacent layer that crosses the row.
AssignmentOnTracks(l) ==
    LET cell == l.cells[1]
        at == cell.assignments[1].at
    IN  /\ cell.top_layer <= Len(l.stack.layers)
        /\ HasAdjacentLayer(l, cell, at)
        /\ LET layer == l.stack.layers[at.layer + 1]
               adj == l.stack.layers[AdjacentLayer(at) + 1]
           IN  /\ at.track < Extent(cell.outline, other(layer.dir)) * num_signal_tracks(layer)
               /\ num_signal_tracks(adj) > 0
               /\ at.at < Extent(cell.outline, layer.dir) * num_signal_tracks(adj)

(***************************************************************************)
(* C5: converting a Library of one rectangular Cell, no instances and one  *)
(* net assignment yields a raw cell whose element count is the number of   *)
(* rail and signal tracks over every row of every layer below top_layer,   *)
(* plus 1 for the outline polygon, and exactly one rectangle element       *)
(* carries the assigned net.                                               *)
(***************************************************************************)
C5_OneAssignmentRoundTrip ==
    (Finished /\ OneCellOneAssignment(self_lib) /\ AssignmentOnTracks(self_lib)) =>
        /\ result = "Ok"
        /\ Len(RawOf(1).elems)
               = TracksBelow(self_lib.stack, self_lib.cells[1], self_lib.cells[1].top_layer) + 1
        /\ Cardinality({k \in 1..Len(RawOf(1).elems) :
                           /\ RawOf(1).elems[k].inner.tag = "Rect"
                           /\ RawOf(1).elems[k].net
                                  = Some(self_lib.cells[1].assignments[1].net)}) = 1

(***************************************************************************)
(* C6: in row r of layer L an instance registers a blockage exactly when   *)
(* its definition's top_layer >= L.index and p0.cross <= r < p0.cross +    *)
(* the definition's extent across L; the range cut for it is [p0.along,    *)
(* p0.along + the definition's extent along L) times the pitch along L.    *)
(***************************************************************************)
C6_BlockageExactlyInFootprint ==
    (row # NoRow) =>
        LET cell == self_lib.cells[pass]
            L == self_lib.stack.layers[row.info.layernum + 1]
            r == row.info.rown
            unit == IF L.dir = Horiz THEN self_lib.stack.xpitch ELSE self_lib.stack.ypitch
            cross(k) == coord(cell.instances[k].p0, other(L.dir))
            along(k) == coord(cell.instances[k].p0, L.dir)
            def(k) == DefOf(self_lib, cell.instances[k])
            blocking == {k \in 1..Len(cell.instances) :
                            /\ def(k).top_layer >= L.index
                            /\ cross(k) <= r
                            /\ r < cross(k) + Extent(def(k).outline, other(L.dir))}
        IN  /\ Len(row.info.insts) = Cardinality(blocking)
            /\ \A k \in blocking :
                   \E j \in 1..Len(row.info.insts) :
                       /\ row.info.insts[j] = cell.instances[k].inst_name
                       /\ row.info.cuts[j]
                              = <<along(k) * unit,
                                  (along(k) + Extent(def(k).outline, L.dir)) * unit>>

\* The 1x1 instance at p0 = (1,2) with top_layer 2, alone in row 2 of a
\* horizontal layer although the cell holds a second instance.
C6_Witness ==
    /\ row # NoRow /\ row.kind = "ok"
    /\ self_lib.stack.layers[row.info.layernum + 1].dir = Horiz
    /\ row.info.rown = 2
    /\ Len(self_lib.cells[pass].instances) = 2
    /\ self_lib.cells[pass].instances[1].p0 = Point(1, 2)
    /\ self_lib.cells[pass].instances[1].cell = CellRefCell(1)
    /\ row.info.insts = <<"inst1">>
    /\ row.info.cuts = <<<<self_lib.stack.xpitch, 2 * self_lib.stack.xpitch>>>>

(***************************************************************************)
(* C7: an Abstract whose name is the name of a Cell of the same Library is *)
(* skipped: the raw library holds exactly one raw cell of that name.       *)
(***************************************************************************)
C7_CollidingAbstractSkipped ==
    result = "Ok" =>
        \A a \in 1..Len(self_lib.abstracts) :
            (\E c \in 1..Len(self_lib.cells) :
                 self_lib.cells[c].name = self_lib.abstracts[a].name) =>
                Cardinality({k \in 1..Len(out) :
                                out[k].name = self_lib.abstracts[a].name}) = 1

(***************************************************************************)
(* C8: converting a Cell whose outline has more than one x/y pair returns  *)
(* an error and never aborts, whatever its instances and assignments are:  *)
(* the conversion stops at the head of that cell with Err, and never       *)
(* enters its layers.                                                      *)
(***************************************************************************)
C8_NonRectangularIsError ==
    /\ (pc = "cell" /\ Finished /\ ~Rectangular(self_lib.cells[pass])) => result = "Err"
    /\ pc \in {"layer", "row", "outline"} => Rectangular(self_lib.cells[pass])
    /\ result = "Ok" => \A c \in 1..Len(self_lib.cells) : Rectangular(self_lib.cells[c])

\* A staircase cell with an instance of a bare name and an assignment below
\* layer 0, refused with an error.
C8_Witness ==
    /\ pc = "cell" /\ result = "Err"
    /\ Len(self_lib.cells[pass].outline.x) = 2
    /\ \E k \in 1..Len(self_lib.cells[pass].instances) :
           self_lib.cells[pass].instances[k].cell.tag = "Name"
    /\ \E k \in 1..Len(self_lib.cells[pass].assignments) :
           /\ self_lib.cells[pass].assignments[k].at.layer = 0
           /\ self_lib.cells[pass].assignments[k].at.relz = Below

(***************************************************************************)
(* C9: converting a rectangular Cell that has an instance whose reference  *)
(* cannot be resolved returns an error to the caller, rather than abort.   *)
(***************************************************************************)
C9_UnresolvedReferenceIsError ==
    (/\ Finished /\ InCell
     /\ Rectangular(self_lib.cells[pass])
     /\ \E k \in 1..Len(self_lib.cells[pass].instances) :
            ~Resolvable(self_lib, self_lib.cells[pass].instances[k]))
        => result = "Err"

(***************************************************************************)
(* C10: converting a rectangular Cell, whose instances resolve, with an    *)
(* assignment whose adjacent layer does not exist returns an error to the  *)
(* caller, rather than abort.                                              *)
(***************************************************************************)
C10_MissingAdjacentLayerIsError ==
    (/\ Finished /\ InCell
     /\ Rectangular(self_lib.cells[pass])
     /\ \A k \in 1..Len(self_lib.cells[pass].instances) :
            Resolvable(self_lib, self_lib.cells[pass].instances[k])
     /\ \E k \in 1..Len(self_lib.cells[pass].assignments) :
            ~HasAdjacentLayer(self_lib, self_lib.cells[pass],
                              self_lib.cells[pass].assignments[k].at))
        => result = "Err"

(***************************************************************************)
(* C11: every successfully converted Cell has as its last element the      *)
(* outline polygon: net None, on the Stack's boundary layer, its vertices  *)
(* the outline's points scaled by (xpitch, ypitch).  When the Stack has no *)
(* boundary layer, the conversion of a Cell or of an Abstract returns an   *)
(* error at its outline, and no raw library is produced.                   *)
(***************************************************************************)
C11_OutlinePolygonLast ==
    /\ result = "Ok" =>
           /\ \A c \in 1..Len(self_lib.cells) :
                  LET o == self_lib.cells[c].outline
                      w == o.x[1] * self_lib.stack.xpitch
                      h == o.y[1] * self_lib.stack.ypitch
                  IN  /\ Len(RawOf(c).elems) >= 1
                      /\ RawOf(c).elems[Len(RawOf(c).elems)]
                             = Element(None, self_lib.stack.boundary_layer[1],
                                       Poly(<<Point(0, 0), Point(w, 0),
                                              Point(w, h), Point(0, h)>>))
           /\ Len(self_lib.cells) + Len(self_lib.abstracts) > 0 =>
                  self_lib.stack.boundary_layer # None
    /\ (Finished /\ pc \in {"outline", "abstract"}) =>
           (result = "Err" /\ self_lib.stack.boundary_layer = None)
    /\ self_lib.stack.boundary_layer = None => Len(out) <= Len(self_lib.stack.layers)

\* A 2x3 cell with an instance, converted on a Stack whose pitches differ.
C11_Witness ==
    /\ result = "Ok"
    /\ self_lib.stack.xpitch # self_lib.stack.ypitch
    /\ \E c \in 1..Len(self_lib.cells) :
           /\ self_lib.cells[c].outline = rect(2, 3)
           /\ Len(RawOf(c).elems) > 1
           /\ RawOf(c).elems[Len(RawOf(c).elems)].inner.tag = "Poly"

(***************************************************************************)
(* C12: when an assignment is selected for a row and the signal track it   *)
(* targets has no segment containing the center taken from the adjacent    *)
(* layer, the conversion returns an error and binds the net to no segment; *)
(* when the row is converted, the net is bound only to segments that       *)
(* contain that center.                                                    *)
(***************************************************************************)
C12_NoCoveringSegmentIsError ==
    (row # NoRow) =>
        LET cell == self_lib.cells[pass]
            nsig == Len(row.period.signals)
            selected == {k \in 1..Len(cell.assignments) :
                            /\ cell.assignments[k].at.layer = row.info.layernum
                            /\ cell.assignments[k].at.track >= row.info.rown * nsig
                            /\ cell.assignments[k].at.track < (row.info.rown + 1) * nsig}
            target(k) == BitAnd(cell.assignments[k].at.track, nsig) + 1
            adjacent(k) == AdjacentLayer(cell.assignments[k].at) + 1
            located(k) == /\ target(k) \in 1..nsig
                          /\ adjacent(k) \in 1..Len(self_lib.stack.layers)
                          /\ num_signal_tracks(self_lib.stack.layers[adjacent(k)]) > 0
            center(k) == signal_track_center(self_lib.stack.layers[adjacent(k)],
                                             cell.assignments[k].at.at).v
            contains(seg, d) == seg.start <= d /\ d <= seg.stop
            bound(k) == {<<t, j>> \in (1..nsig) \X (1..MaxInsts + 2) :
                            /\ j <= Len(row.period.signals[t].segments)
                            /\ row.period.signals[t].segments[j].net
                                   = Some(cell.assignments[k].net)}
        IN  \A k \in selected :
                located(k) =>
                    IF \E j \in 1..Len(row.period.signals[target(k)].segments) :
                           contains(row.period.signals[target(k)].segments[j], center(k))
                    THEN /\ row.kind = "ok"
                         /\ \A b \in bound(k) :
                                /\ b[1] = target(k)
                                /\ contains(row.period.signals[b[1]].segments[b[2]], center(k))
                         /\ bound(k) # {}
                    ELSE /\ row.kind = "err" /\ result = "Err" /\ pc = "row"
                         /\ bound(k) = {}

\* An assignment whose center lies inside the blockage of the instance of
\* its row, while the track still has a segment after the blockage.
C12_Witness ==
    /\ row # NoRow /\ row.kind = "err" /\ result = "Err"
    /\ Len(row.info.cuts) = 1
    /\ Len(self_lib.cells[pass].assignments) = 1
    /\ LET at == self_lib.cells[pass].assignments[1].at
           d == signal_track_center(self_lib.stack.layers[AdjacentLayer(at) + 1], at.at).v
       IN  /\ at.layer = row.info.layernum
           /\ row.info.cuts[1][1] < d /\ d < row.info.cuts[1][2]
           /\ Len(row.period.signals[1].segments) >= 1

(***************************************************************************)
(* C13: a successfully converted Cell has one raw instance per source      *)
(* instance, in the same order, with p0 = (p0.x * xpitch, p0.y * ypitch)   *)
(* and every other field unchanged; the Library being converted is never   *)
(* modified.                                                               *)
(***************************************************************************)
InstancesScaled ==
    result = "Ok" =>
        \A c \in 1..Len(self_lib.cells) :
            LET src == self_lib.cells[c].instances
                raw == RawOf(c).insts
            IN  /\ Len(raw) = Len(src)
                /\ \A k \in 1..Len(src) :
                       /\ raw[k].inst_name = src[k].inst_name
                       /\ raw[k].cell_name = src[k].cell_name
                       /\ raw[k].cell = src[k].cell
                       /\ raw[k].reflect = src[k].reflect
                       /\ raw[k].angle = src[k].angle
                       /\ raw[k].p0.x = src[k].p0.x * self_lib.stack.xpitch
                       /\ raw[k].p0.y = src[k].p0.y * self_lib.stack.ypitch

\* C13: the raw instances are the source instances with p0 scaled by the
\* pitches, at every step, and no step changes the Library.
C13_InstancesScaledInOrder == []InstancesScaled /\ [][self_lib' = self_lib]_vars

\* Two instances at different places, neither on a diagonal, on a Stack
\* whose pitches differ.
C13_Witness ==
    /\ result = "Ok"
    /\ self_lib.stack.xpitch # self_lib.stack.ypitch
    /\ \E c \in 1..Len(self_lib.cells) :
           /\ Len(RawOf(c).insts) = 2
           /\ self_lib.cells[c].instances[1].p0 = Point(1, 2)
           /\ self_lib.cells[c].instances[2].p0 = Point(0, 1)
           /\ self_lib.cells[c].instances[1].cell # self_lib.cells[c].instances[2].cell

(***************************************************************************)
(* C14: a successful conversion outputs first one unit cell per Stack      *)
(* layer, named "<layer name>::unit" and holding one rectangle per rail or *)
(* signal track of one period, each spanning [0, unit pitch] along the     *)
(* layer's direction; then one raw cell per Cell, in order; then the raw   *)
(* cells of the Abstracts, in order.                                       *)
(***************************************************************************)
C14_OutputOrder ==
    result = "Ok" =>
        LET nl == Len(self_lib.stack.layers)
            nc == Len(self_lib.cells)
            \* The abstract a raw cell past the Cells comes from.
            from(j) == CHOOSE a \in 1..Len(self_lib.abstracts) :
                           self_lib.abstracts[a].name = out[j].name
        IN  /\ Len(out) >= nl + nc
            /\ \A n \in 1..nl :
                   LET layer == self_lib.stack.layers[n]
                       unit == IF layer.dir = Horiz THEN self_lib.stack.xpitch
                               ELSE self_lib.stack.ypitch
                   IN  /\ out[n].name = layer.name \o "::unit"
                       /\ out[n].insts = <<>>
                       /\ Len(out[n].elems)
                              = Cardinality({i \in 1..Len(flat_entries(layer)) :
                                                flat_entries(layer)[i].ttype # Gap})
                       /\ \A k \in 1..Len(out[n].elems) :
                              /\ out[n].elems[k].inner.tag = "Rect"
                              /\ coord(out[n].elems[k].inner.p0, layer.dir) = 0
                              /\ coord(out[n].elems[k].inner.p1, layer.dir) = unit
            /\ \A c \in 1..nc : out[nl + c].name = self_lib.cells[c].name
            /\ \A j \in (nl + nc + 1)..Len(out) :
                   /\ \E a \in 1..Len(self_lib.abstracts) :
                          self_lib.abstracts[a].name = out[j].name
                   /\ Len(out[j].elems) = 1 /\ out[j].elems[1].inner.tag = "Poly"
                   /\ j > nl + nc + 1 => from(j - 1) < from(j)

\* Two layers, two cells and two abstracts, all converted.
C14_Witness ==
    /\ result = "Ok"
    /\ Len(self_lib.cells) = 2 /\ Len(self_lib.abstracts) = 2
    /\ Len(out) > Len(self_lib.stack.layers) + Len(self_lib.cells)
    /\ Len(out[1].elems) = 3

(***************************************************************************)
(* C15: Outline::new(x, y) returns an error exactly when len(x) # len(y),  *)
(* or the vectors are empty, or some x[k] > x[k-1], or some y[k] < y[k-1]; *)
(* otherwise it returns the Outline holding x and y unchanged, whose x is  *)
(* non-increasing and whose y is non-decreasing.                           *)
(***************************************************************************)
C15_OutlineNewErrorExactly ==
    call.op = "new" =>
        LET x == call.x
            y == call.y
            refused == \/ Len(x) # Len(y)
                       \/ Len(x) = 0 \/ Len(y) = 0
                       \/ \E k \in 1..(Len(x) - 1) : x[k + 1] > x[k]
                       \/ \E k \in 1..(Len(y) - 1) : y[k + 1] < y[k]
        IN  IF refused THEN call.res.kind = "err"
            ELSE /\ call.res.kind = "ok"
                 /\ call.res.v.x = x /\ call.res.v.y = y
                 /\ \A i, j \in 1..Len(x) : i < j => call.res.v.x[i] >= call.res.v.x[j]
                 /\ \A i, j \in 1..Len(y) : i < j => call.res.v.y[i] <= call.res.v.y[j]

\* A staircase of two pairs with a repeated x, accepted.
C15_Witness ==
    /\ call.op = "new" /\ call.res.kind = "ok"
    /\ Len(call.x) = 2 /\ call.x[1] = call.x[2] /\ call.y[1] < call.y[2]

\* Two vertices differ in at most one coordinate.
Rectilinear(p, q) == p.x = q.x \/ p.y = q.y

\* Every edge of the path pts, the closing edge back to its first vertex
\* included, runs along one axis.
ClosedRectilinear(pts) ==
    /\ \A k \in 1..(Len(pts) - 1) : Rectilinear(pts[k], pts[k + 1])
    /\ Rectilinear(pts[Len(pts)], pts[1])

(***************************************************************************)
(* C16 (as the code has it): for every valid Outline(x, y), points()       *)
(* yields 2*len(x)+2 vertices, the first of them the origin, that form a   *)
(* closed rectilinear path once the closing edge back to the origin is     *)
(* added.                                                                  *)
(***************************************************************************)
C16_PointsClosedRectilinear ==
    call.op = "points" =>
        /\ Len(call.res) = 2 * Len(call.outline.x) + 2
        /\ call.res[1] = Point(0, 0)
        /\ ClosedRectilinear(call.res)

\* C16 as stated: points() yields 2*len(x)+1 vertices that form a closed
\* rectilinear path once the closing edge back to the origin is added.
C16_PointsCountAsStated ==
    call.op = "points" =>
        /\ Len(call.res) = 2 * Len(call.outline.x) + 1
        /\ ClosedRectilinear(call.res)

\* The vertices of a two-step staircase.
C16_Witness ==
    /\ call.op = "points" /\ Len(call.outline.x) = 2
    /\ call.outline.x[1] > call.outline.x[2] /\ call.outline.x[2] > 0
    /\ call.outline.y[1] > 0 /\ call.outline.y[2] > call.outline.y[1]
    /\ Len(call.res) = 6

\* The entries one TrackSpec stands for: a literal entry itself, a Pattern's
\* entries nrep times over.
Expand(spec) ==
    IF spec.tag = "Entry" THEN <<spec.e>>
    ELSE [k \in 1..(spec.p.nrep * Len(spec.p.entries)) |->
              spec.p.entries[((k - 1) % Len(spec.p.entries)) + 1]]

RECURSIVE Concat(_)
Concat(seqs) == IF seqs = <<>> THEN <<>> ELSE Head(seqs) \o Concat(Tail(seqs))

\* (number of literal entries) + sum over patterns of nrep * len(pattern.entries)
RECURSIVE FlatLength(_)
FlatLength(specs) ==
    IF specs = <<>> THEN 0
    ELSE (IF Head(specs).tag = "Entry" THEN 1
          ELSE Head(specs).p.nrep * Len(Head(specs).p.entries))
         + FlatLength(Tail(specs))

(***************************************************************************)
(* C17: Layer::flat_entries() returns, in order, each literal entry once   *)
(* and each Pattern's entry list replayed exactly nrep times; its length   *)
(* is (number of literal entries) + sum over patterns of nrep *            *)
(* len(pattern.entries); Pattern{[gap(230), sig(140)], nrep=7} contributes *)
(* exactly 14 entries alternating gap/sig, and a pattern with nrep = 0     *)
(* contributes none.                                                       *)
(***************************************************************************)
C17_FlatEntriesReplaysPatterns ==
    call.op = "flat_entries" =>
        LET specs == call.layer.entries IN
        /\ call.res = Concat([i \in 1..Len(specs) |-> Expand(specs[i])])
        /\ Len(call.res) = FlatLength(specs)
        /\ specs = <<ExamplePattern>> =>
               /\ Len(call.res) = 14
               /\ \A k \in 1..14 :
                      call.res[k] = IF k % 2 = 1 THEN TrackEntry(230, Gap)
                                    ELSE TrackEntry(140, Signal)
        /\ (\A i \in 1..Len(specs) : specs[i].tag = "Pat" /\ specs[i].p.nrep = 0)
               => call.res = <<>>

\* A literal entry followed by a two-entry Pattern replayed twice.
C17_Witness ==
    /\ call.op = "flat_entries"
    /\ Len(call.layer.entries) = 2
    /\ call.layer.entries[1].tag = "Entry"
    /\ call.layer.entries[2].tag = "Pat"
    /\ call.layer.entries[2].p.nrep = 2
    /\ Len(call.layer.entries[2].p.entries) = 2
    /\ Len(call.res) = 5

RECURSIVE WidthSum(_)
WidthSum(es) == IF es = <<>> THEN 0 ELSE Head(es).width + WidthSum(Tail(es))

\* The Layer with every repetition of every Pattern written out as literal
\* entries; it flattens to the same sequence.
WrittenOut(layer) ==
    LET flat == Concat([i \in 1..Len(layer.entries) |-> Expand(layer.entries[i])])
    IN  [layer EXCEPT !.entries = [k \in 1..Len(flat) |-> SpecEntry(flat[k])]]

(***************************************************************************)
(* C18: Layer::pitch() equals the sum of the widths of all flattened       *)
(* entries, and a Layer written with Patterns has the same pitch() as the  *)
(* Layer with the repetitions written out as literal entries.              *)
(***************************************************************************)
C18_PitchIsSumOfFlattenedWidths ==
    call.op = "pitch" =>
        /\ call.res = WidthSum(flat_entries(call.layer))
        /\ call.res = WidthSum(flat_entries(WrittenOut(call.layer)))
        /\ call.res = pitch(WrittenOut(call.layer))

\* A Layer with a two-entry Pattern repeated twice: its written-out form has
\* other entries and the same pitch.
C18_Witness ==
    /\ call.op = "pitch"
    /\ \E i \in 1..Len(call.layer.entries) :
           /\ call.layer.entries[i].tag = "Pat"
           /\ call.layer.entries[i].p.nrep = 2
           /\ Len(call.layer.entries[i].p.entries) = 2
    /\ WrittenOut(call.layer) # call.layer
    /\ call.res > 0

\* The position among the flattened entries es of signal track number k
\* (from 0): the entry that is a Signal and has k Signals before it.
SignalEntry(es, k) ==
    CHOOSE i \in 1..Len(es) :
        /\ es[i].ttype = Signal
        /\ Cardinality({j \in 1..(i - 1) : es[j].ttype = Signal}) = k

\* The midpoint (track start + width/2) of signal track number k of the
\* first period of layer.
SignalMidpoint(layer, k) ==
    LET es == flat_entries(layer)
        i == SignalEntry(es, k)
    IN  layer.offset + WidthSum(SubSeq(es, 1, i - 1)) + (es[i].width \div 2)

(***************************************************************************)
(* C19: for a Layer with n >= 1 signal tracks per period and any idx,      *)
(* signal_track_center(idx) equals the midpoint of signal track number     *)
(* (idx mod n) within one period plus floor(idx / n) * pitch(); for        *)
(* idx < n it is the midpoint of the idx-th signal track of the first      *)
(* period.                                                                 *)
(***************************************************************************)
C19_SignalTrackCenterWholePeriods ==
    (call.op = "signal_track_center" /\ num_signal_tracks(call.layer) >= 1) =>
        LET n == num_signal_tracks(call.layer) IN
        /\ call.res = Value(SignalMidpoint(call.layer, call.idx % n)
                            + (call.idx \div n) * pitch(call.layer))
        /\ call.idx < n => call.res = Value(SignalMidpoint(call.layer, call.idx))

\* The height |p1.y - p0.y| and the width |p1.x - p0.x| of a Rect.
Height(r) == IF r.p1.y >= r.p0.y THEN r.p1.y - r.p0.y ELSE r.p0.y - r.p1.y
Width(r) == IF r.p1.x >= r.p0.x THEN r.p1.x - r.p0.x ELSE r.p0.x - r.p1.x

\* The text labels among exported GDS elements.
Labels(gds_elems) == SelectSeq(gds_elems, LAMBDA e : e.tag = "GdsTextElem")

(***************************************************************************)
(* C20: Shape::orientation() of a Rect is Vert exactly when its height     *)
(* |p1.y - p0.y| exceeds its width |p1.x - p0.x| and Horiz otherwise       *)
(* (squares included), and the GDS text label of a net-carrying element is *)
(* rotated by 90 degrees exactly when the element's shape orientation is   *)
(* Vert.                                                                   *)
(***************************************************************************)
C20_LabelRotatedWhenVert ==
    /\ (call.op = "orientation" /\ call.elem.inner.tag = "Rect") =>
           call.res = IF Height(call.elem.inner) > Width(call.elem.inner)
                      THEN Value(Vert) ELSE Value(Horiz)
    /\ (call.op = "convert_element" /\ call.res.kind = "ok" /\ call.elem.net # None) =>
           /\ Len(Labels(call.res.v)) = 1
           /\ Labels(call.res.v)[1].string = call.elem.net[1]
           /\ call.elem.inner.tag = "Rect"
           /\ IF Height(call.elem.inner) > Width(call.elem.inner)
              THEN /\ Shape_orientation(call.elem.inner) = Value(Vert)
                   /\ Labels(call.res.v)[1].strans # None
                   /\ Labels(call.res.v)[1].strans[1].angle = Some(90)
              ELSE /\ Shape_orientation(call.elem.inner) = Value(Horiz)
                   /\ Labels(call.res.v)[1].strans = None

\* A net-carrying rectangle, higher than wide and drawn from its upper right
\* corner, exported with a rotated label.
C20_Witness ==
    /\ call.op = "convert_element" /\ call.res.kind = "ok"
    /\ call.elem.net = Some("clk")
    /\ call.elem.inner.tag = "Rect"
    /\ call.elem.inner.p1.y < call.elem.inner.p0.y
    /\ Width(call.elem.inner) > 0
    /\ Labels(call.res.v)[1].strans = Some(GdsStrans90)

\* The (x, y) pairs of a flattened coordinate vector.
Pairs(xy) == [k \in 1..(Len(xy) \div 2) |-> <<xy[2 * k - 1], xy[2 * k]>>]

(***************************************************************************)
(* C21: every GDS boundary produced by GdsConverter::convert_element is a  *)
(* closed coordinate list whose last (x, y) pair repeats its first: a Rect *)
(* gives the 5 vertices (x0,y0),(x1,y0),(x1,y1),(x0,y1),(x0,y0), and a     *)
(* Poly of N points gives a 2*(N+1)-entry vector listing its points in     *)
(* order followed by the first point again.                                *)
(***************************************************************************)
C21_BoundaryClosed ==
    (call.op = "convert_element" /\ call.res.kind = "ok") =>
        LET b == call.res.v[1]
            inner == call.elem.inner
        IN  /\ b.tag = "GdsBoundary"
            /\ Len(b.xy) % 2 = 0 /\ Len(b.xy) >= 4
            /\ Pairs(b.xy)[Len(Pairs(b.xy))] = Pairs(b.xy)[1]
            /\ inner.tag = "Rect" =>
                   Pairs(b.xy) = << <<inner.p0.x, inner.p0.y>>, <<inner.p1.x, inner.p0.y>>,
                                    <<inner.p1.x, inner.p1.y>>, <<inner.p0.x, inner.p1.y>>,
                                    <<inner.p0.x, inner.p0.y>> >>
            /\ inner.tag = "Poly" =>
                   /\ Len(b.xy) = 2 * (Len(inner.pts) + 1)
                   /\ \A k \in 1..Len(inner.pts) :
                          Pairs(b.xy)[k] = <<inner.pts[k].x, inner.pts[k].y>>
                   /\ Pairs(b.xy)[Len(inner.pts) + 1] = <<inner.pts[1].x, inner.pts[1].y>>

\* A triangle exported as four pairs.
C21_Witness ==
    /\ call.op = "convert_element" /\ call.res.kind = "ok"
    /\ call.elem.inner.tag = "Poly" /\ Len(call.elem.inner.pts) = 3
    /\ Len(call.res.v[1].xy) = 8

(***************************************************************************)
(* C22: Unwrapper::or_handle(helper, msg) returns Ok(t) for Some(t) and    *)
(* for Ok(t), and for None and for Err(_) returns Err(helper.err(msg)),    *)
(* the helper's own error built from the given message; the original error *)
(* value of a Result is discarded.                                         *)
(***************************************************************************)
C22_OrHandleMapsToHelperError ==
    call.op = "or_handle" =>
        LET val == call.self.val
            own == [kind |-> "err", e |-> [by |-> call.helper, msg |-> call.msg]]
        IN  IF call.self.type = "Option"
            THEN call.res = IF val = None THEN own ELSE [kind |-> "ok", v |-> val[1]]
            ELSE /\ call.res = IF val.kind = "ok" THEN [kind |-> "ok", v |-> val.v] ELSE own
                 /\ val.kind = "err" => call.res.e # val.e /\ call.res.e.by = call.helper

\* A Result that is an Err, handled.
C22_Witness ==
    /\ call.op = "or_handle" /\ call.self.type = "Result"
    /\ call.self.val.kind = "err" /\ call.res.kind = "err"
    /\ call.res.e.msg = "Result failed!"

\* Some segment of track covers a coordinate strictly inside the range c.
RunsThrough(track, c) ==
    \E j \in 1..Len(track.segments) :
        \E x \in (c[1] + 1)..(c[2] - 1) :
            track.segments[j].start <= x /\ x < track.segments[j].stop

(***************************************************************************)
(* C23: for every row of every layer converted, after all of the row's     *)
(* blockage intervals have been cut from the fresh track period (one cut   *)
(* per intersecting instance, in instance order), no track segment of that *)
(* row covers any coordinate strictly inside any of the row's blockage     *)
(* intervals, for any number and ordering of intersecting instances.       *)
(***************************************************************************)
C23_NoSegmentInsideBlockage ==
    (row # NoRow /\ row.kind = "ok") =>
        \A k \in 1..Len(row.info.cuts) :
            /\ \A t \in 1..Len(row.period.rails) :
                   ~RunsThrough(row.period.rails[t], row.info.cuts[k])
            /\ \A t \in 1..Len(row.period.signals) :
                   ~RunsThrough(row.period.signals[t], row.info.cuts[k])

\* The coordinate x lies on some segment of segs.
Covered(segs, x) == \E i \in 1..Len(segs) : segs[i].start <= x /\ x < segs[i].stop

(***************************************************************************)
(* C24: a successful Track::cut(start, stop) leaves unchanged every        *)
(* segment that does not overlap [start, stop) (seg.stop <= start or       *)
(* seg.start >= stop), and never enlarges coverage: every coordinate       *)
(* covered by some segment after the cut was covered by some segment       *)
(* before it.                                                              *)
(***************************************************************************)
C24_CutLeavesOthersAlone ==
    (call.op = "cut" /\ call.res = LayoutResultOk) =>
        /\ \A i \in 1..Len(call.before) :
               (call.before[i].stop <= call.start \/ call.before[i].start >= call.stop)
                   => \E j \in 1..Len(segments) : segments[j] = call.before[i]
        /\ \A x \in Coords : Covered(segments, x) => Covered(call.before, x)

\* The signal tracks of a track period, by position, that hold a segment on net.
TracksOnNet(period, net) ==
    {t \in 1..Len(period.signals) :
        \E j \in 1..Len(period.signals[t].segments) :
            period.signals[t].segments[j].net = Some(net)}

(***************************************************************************)
(* C25: a net assignment at track index t on a layer with nsig signal      *)
(* tracks per period is handled in row r exactly when r*nsig <= t <        *)
(* (r+1)*nsig, and its net is bound to a segment of the signal track whose *)
(* per-period index is t mod nsig in that row; the track lookup never      *)
(* indexes outside the row's signal tracks.  Stated for cells with one     *)
(* assignment whose adjacent layer exists and has signal tracks.           *)
(***************************************************************************)
C25_AssignmentOnTrackModNsig ==
    (/\ row # NoRow
     /\ Len(self_lib.cells[pass].assignments) = 1
     /\ HasAdjacentLayer(self_lib, self_lib.cells[pass], self_lib.cells[pass].assignments[1].at)
     /\ num_signal_tracks(self_lib.stack.layers[
            AdjacentLayer(self_lib.cells[pass].assignments[1].at) + 1]) > 0) =>
        LET assn == self_lib.cells[pass].assignments[1]
            nsig == Len(row.period.signals)
            r == row.info.rown
            here == /\ assn.at.layer = row.info.layernum
                    /\ r * nsig <= assn.at.track /\ assn.at.track < (r + 1) * nsig
        IN  /\ row.kind # "panic"
            /\ row.kind = "ok" =>
                   TracksOnNet(row.period, assn.net)
                       = IF here THEN {(assn.at.track % nsig) + 1} ELSE {}

\* The rectangle of the segment (start, stop) of a track at track_start of
\* the given width in row r, the rows lying cross apart across the layer.
RowRect(dir, track_start, width, start, stop, r, cross) ==
    IF dir = Horiz
    THEN Rect(Point(start, track_start + r * cross),
              Point(stop, track_start + width + r * cross))
    ELSE Rect(Point(track_start + r * cross, start),
              Point(track_start + width + r * cross, stop))

\* The rectangles of all segments of the tracks ts in row r.
RowRects(dir, ts, r, cross) ==
    {RowRect(dir, ts[t].start, ts[t].width, ts[t].segments[j].start,
             ts[t].segments[j].stop, r, cross) :
        <<t, j>> \in {p \in (1..Len(ts)) \X (1..(MaxInsts + 2)) :
                         p[2] <= Len(ts[p[1]].segments)}}

\* The number of segments of the tracks ts.
RECURSIVE SegmentCount(_)
SegmentCount(ts) ==
    IF ts = <<>> THEN 0 ELSE Len(Head(ts).segments) + SegmentCount(Tail(ts))

\* The elements the last converted row appended to those of the cell
\* (lib.rs:1147-1158): one per segment of its rails and signals.
RowElems ==
    SubSeq(cell_elems,
           Len(cell_elems) + 1 - SegmentCount(row.period.rails \o row.period.signals),
           Len(cell_elems))

(***************************************************************************)
(* C26: the track rectangles of row r are shifted by the row's cross-axis  *)
(* offset measured in the cross-axis unit pitch: on a Horiz layer by       *)
(* r * ypitch in y, on a Vert layer by r * xpitch in x, also when xpitch   *)
(* differs from ypitch; the along-axis coordinates are not shifted.        *)
(***************************************************************************)
C26_RowShiftedByCrossPitch ==
    (row # NoRow /\ row.kind = "ok") =>
        LET layer == self_lib.stack.layers[row.info.layernum + 1]
            cross == IF layer.dir = Horiz THEN self_lib.stack.ypitch
                     ELSE self_lib.stack.xpitch
        IN  {RowElems[k].inner : k \in DOMAIN RowElems}
                = RowRects(layer.dir, row.period.rails, row.info.rown, cross)
                      \cup RowRects(layer.dir, row.period.signals, row.info.rown, cross)

\* The position among the flattened entries es of the entry of type ttype
\* that has k entries of that type before it.
EntryOfType(es, ttype, k) ==
    CHOOSE i \in 1..Len(es) :
        /\ es[i].ttype = ttype
        /\ Cardinality({j \in 1..(i - 1) : es[j].ttype = ttype}) = k

\* The track of rank k among those of type ttype, as C27 describes it.
FreshTrack(layer, ttype, k, stop) ==
    LET es == flat_entries(layer)
        i == EntryOfType(es, ttype, k)
    IN  [layer |-> layer.index, ttype |-> ttype, index |-> k, dir |-> layer.dir,
         start |-> layer.offset + WidthSum(SubSeq(es, 1, i - 1)),
         width |-> es[i].width,
         segments |-> <<[net |-> IF ttype = Rail THEN RailNet ELSE None,
                         start |-> 0, stop |-> stop]>>]

(***************************************************************************)
(* C27: Layer::to_track_period(stop) emits exactly one Track per Rail or   *)
(* Signal entry of flat_entries() and none for Gaps (so signals.len() ==   *)
(* num_signal_tracks()); each track's start is offset plus the sum of the  *)
(* widths of all flattened entries preceding it, its width is the entry    *)
(* width, its index is its rank among tracks of the same type, and it      *)
(* holds exactly one segment spanning 0 to stop; signal segments start     *)
(* with net None and rail segments with the placeholder power/ground net.  *)
(***************************************************************************)
C27_TrackPeriodPerEntry ==
    call.op = "to_track_period" =>
        LET es == flat_entries(call.layer)
            count(ttype) == Cardinality({i \in 1..Len(es) : es[i].ttype = ttype})
        IN  /\ Len(call.res.rails) = count(Rail)
            /\ Len(call.res.signals) = count(Signal)
            /\ Len(call.res.signals) = num_signal_tracks(call.layer)
            /\ \A k \in 1..Len(call.res.rails) :
                   call.res.rails[k] = FreshTrack(call.layer, Rail, k - 1, call.stop)
            /\ \A k \in 1..Len(call.res.signals) :
                   call.res.signals[k] = FreshTrack(call.layer, Signal, k - 1, call.stop)

\* A Layer at a negative offset with a rail, a gap and a Pattern of signals.
C27_Witness ==
    /\ call.op = "to_track_period" /\ call.stop > 0
    /\ call.layer.offset < 0
    /\ Len(call.res.rails) = 1 /\ Len(call.res.signals) = 2
    /\ Len(call.layer.entries) = 2
    /\ call.layer.entries[2].tag = "Pat"
    /\ call.res.signals[2].start > call.res.signals[1].start + 1

(***************************************************************************)
(* C28: Track::stop(x) on a track with at least one segment sets only the  *)
(* final segment's stop to x and leaves unchanged the number of segments,  *)
(* every other segment, and the final segment's start and net; on a track  *)
(* with no segments it returns an error and changes nothing.               *)
(***************************************************************************)
C28_StopSetsLastSegment ==
    call.op = "stop" =>
        IF Len(call.before) = 0
        THEN call.res = LayoutResultErr /\ segments = call.before
        ELSE /\ call.res = LayoutResultOk
             /\ Len(segments) = Len(call.before)
             /\ \A i \in 1..(Len(segments) - 1) : segments[i] = call.before[i]
             /\ segments[Len(segments)].stop = call.stop
             /\ segments[Len(segments)].start = call.before[Len(segments)].start
             /\ segments[Len(segments)].net = call.before[Len(segments)].net

\* The last of several segments, carrying a net, stopped somewhere else.
C28_Witness ==
    /\ call.op = "stop" /\ call.res = LayoutResultOk
    /\ Len(call.before) >= 2
    /\ call.before[Len(call.before)].net # None
    /\ call.stop # call.before[Len(call.before)].stop
    /\ segments[Len(segments)].stop = call.stop

(***************************************************************************)
(* C29: for every Layer that has at least one Signal entry after           *)
(* flattening and for every index idx, signal_track_center(idx) returns a  *)
(* coordinate and never reaches its fatal "cannot find track" path.        *)
(***************************************************************************)
C29_SignalTrackCenterFindsTrack ==
    (/\ call.op = "signal_track_center"
     /\ \E i \in 1..Len(flat_entries(call.layer)) :
            flat_entries(call.layer)[i].ttype = Signal)
        => call.res.kind = "value" /\ call.res.v \in Int

\* An index past the signal tracks of one period of a Layer with two of them.
C29_Witness ==
    /\ call.op = "signal_track_center"
    /\ num_signal_tracks(call.layer) = 2
    /\ call.idx > 2
    /\ call.res.kind = "value"

\* The layer has at least one rail or signal track and declares no raw layer.
TracksWithoutRaw(layer) ==
    /\ layer.raw = None
    /\ \E i \in 1..Len(flat_entries(layer)) : flat_entries(layer)[i].ttype # Gap

(***************************************************************************)
(* C30: if some Stack layer that has at least one rail or signal track     *)
(* declares no raw DataTypeMap, Library conversion returns an error value  *)
(* before any Cell is converted; consequently the unchecked unwrap of      *)
(* convert_track inside cell conversion is never reached with an error,    *)
(* and the conversion does not abort.                                      *)
(***************************************************************************)
C30_MissingRawLayerIsError ==
    /\ (\E k \in 1..Len(self_lib.stack.layers) : TracksWithoutRaw(self_lib.stack.layers[k])) =>
           /\ pc = "unit" /\ row = NoRow /\ cell_elems = <<>>
           /\ result \in {"running", "Err"}
           /\ Finished =>
                  /\ result = "Err"
                  /\ TracksWithoutRaw(self_lib.stack.layers[pass])
                  /\ \A k \in 1..(pass - 1) : ~TracksWithoutRaw(self_lib.stack.layers[k])
           /\ Len(out) < Len(self_lib.stack.layers)
    /\ row # NoRow => ~TracksWithoutRaw(self_lib.stack.layers[row.info.layernum + 1])

\* A Library with cells on a Stack whose second layer has no raw layer:
\* convert has returned the error at the second unit cell.
C30_Witness ==
    /\ result = "Err" /\ pc = "unit" /\ pass = 2
    /\ self_lib.stack.layers[2].raw = None
    /\ Len(self_lib.cells) >= 1
    /\ Len(out) = 1

====
